---------------------------- MODULE Spec2Model ----------------------------
(***************************************************************************)
(* taskproc: the canonical task store with its view pipeline (Database),   *)
(* the expression compiler (ExpressionParser), the action log              *)
(* (ViewStorage) and the coordinator (DataManager).                        *)
(*                                                                         *)
(* Conventions.  A std::string is a sequence of one-character strings.     *)
(* A std::optional<T> is a sequence of length at most one: << >> is        *)
(* nullopt and <<v>> holds v.  A const Task* of the view is the id of the  *)
(* map node it points to.  A file path is an atom (a TLA+ string).         *)
(***************************************************************************)
EXTENDS Integers, Sequences, FiniteSets, TLC

VARIABLES
  tasks_,             \* Database::tasks_        : id -> Task
  view_,              \* Database::view_         : sequence of task pointers
  status_index_,      \* Database::status_index_ : status -> pointers
  tag_index_,         \* Database::tag_index_    : tag -> pointers
  current_filepath_,  \* DataManager::current_filepath_ ("" when none)
  storage_filepath_,  \* ViewStorage::current_filepath_ (optional)
  history_,           \* ViewStorage::history_
  target_file,        \* the durable file .taskproc.storage (optional)
  tmp_file,           \* the temporary file .taskproc.storage.tmp (optional)
  process,            \* "up" or "crashed"
  io_failed,          \* has a file operation failed under this DataManager
  last,               \* the operation just performed, with what it saw
  memo,               \* the most recent replay: its log and its result
  threads             \* the threads that share one ViewStorage: where each
                      \* is in persist(), with its local variables

vars == <<tasks_, view_, status_index_, tag_index_, current_filepath_,
          storage_filepath_, history_, target_file, tmp_file, process,
          io_failed, last, memo, threads>>

dbVars == <<tasks_, view_, status_index_, tag_index_>>
vsVars == <<storage_filepath_, history_>>
diskVars == <<target_file, tmp_file>>

(***************************************************************************)
(* Bounds of the model.                                                    *)
(***************************************************************************)
MaxLog == 2        \* longest action log handed to replay_history
MaxHistory == 2    \* longest history_ a session builds up
MaxText == 4       \* longest text of the parser's alphabet handed to the parser

(***************************************************************************)
(* Strings.                                                                *)
(***************************************************************************)
S_id == <<"i", "d">>
S_title == <<"t", "i", "t", "l", "e">>
S_status == <<"s", "t", "a", "t", "u", "s">>
S_priority == <<"p", "r", "i", "o", "r", "i", "t", "y">>
S_created_date == <<"c", "r", "e", "a", "t", "e", "d", "_", "d", "a", "t", "e">>
S_due_date == <<"d", "u", "e", "_", "d", "a", "t", "e">>
S_assignee == <<"a", "s", "s", "i", "g", "n", "e", "e">>
S_description == <<"d", "e", "s", "c", "r", "i", "p", "t", "i", "o", "n">>
S_asc == <<"a", "s", "c">>
S_ascending == <<"a", "s", "c", "e", "n", "d", "i", "n", "g">>
S_desc == <<"d", "e", "s", "c">>
S_descending == <<"d", "e", "s", "c", "e", "n", "d", "i", "n", "g">>
S_todo == <<"t", "o", "d", "o">>
S_done == <<"d", "o", "n", "e">>
S_in_progress == <<"i", "n", "-", "p", "r", "o", "g", "r", "e", "s", "s">>
S_empty == << >>

\* The characters of the model in the order of their char values.
Chars == <<"\t", " ", "!", "-", "0", "1", "2", "3", "4", "5", "6", "7", "8",
           "9", "<", "=", ">", "_", "a", "b", "c", "d", "e", "f", "g", "h",
           "i", "j", "k", "l", "m", "n", "o", "p", "q", "r", "s", "t", "u",
           "v", "w", "x", "y", "z">>

CharOrd(c) == CHOOSE i \in 1..Len(Chars) : Chars[i] = c

\* std::string operator< : lexicographic on char values.
RECURSIVE StrLess(_, _)
StrLess(a, b) ==
  IF b = << >> THEN FALSE
  ELSE IF a = << >> THEN TRUE
  ELSE IF Head(a) = Head(b) THEN StrLess(Tail(a), Tail(b))
  ELSE CharOrd(Head(a)) < CharOrd(Head(b))

npos == -1

\* string_view::find(pat): the 0-based position of the leftmost occurrence.
find(expr, pat) ==
  LET hits == {i \in 0..(Len(expr) - Len(pat)) :
                 SubSeq(expr, i + 1, i + Len(pat)) = pat}
  IN IF hits = {} THEN npos
     ELSE CHOOSE i \in hits : \A j \in hits : i <= j

\* string_view::substr(pos) and substr(pos, n), 0-based.
substr(s, pos) == SubSeq(s, pos + 1, Len(s))
substr_n(s, pos, n) == SubSeq(s, pos + 1, pos + n)

(***************************************************************************)
(* ExpressionParser (expr_parser.cpp).                                     *)
(***************************************************************************)
FilterFields == {"Id", "Title", "Status", "Priority", "CreatedDate",
                 "DueDate", "Assignee", "Description"}
SortFields == {"Id", "Title", "Status", "Priority", "CreatedDate", "DueDate"}
FilterOps == {"Equal", "NotEqual", "GreaterThan", "GreaterThanOrEqual",
              "LessThan", "LessThanOrEqual"}

\* A plausible slip: the one-character operators are looked for first.
find_operator_single_first(expr) ==
  IF find(expr, <<"=">>) # npos
    THEN <<[op |-> "Equal", pos |-> find(expr, <<"=">>)]>>
  ELSE IF find(expr, <<">">>) # npos
    THEN <<[op |-> "GreaterThan", pos |-> find(expr, <<">">>)]>>
  ELSE IF find(expr, <<"<">>) # npos
    THEN <<[op |-> "LessThan", pos |-> find(expr, <<"<">>)]>>
  ELSE IF find(expr, <<">", "=">>) # npos
    THEN <<[op |-> "GreaterThanOrEqual", pos |-> find(expr, <<">", "=">>)]>>
  ELSE IF find(expr, <<"<", "=">>) # npos
    THEN <<[op |-> "LessThanOrEqual", pos |-> find(expr, <<"<", "=">>)]>>
  ELSE IF find(expr, <<"!", "=">>) # npos
    THEN <<[op |-> "NotEqual", pos |-> find(expr, <<"!", "=">>)]>>
  ELSE << >>

find_operator(expr) ==
  IF find(expr, <<">", "=">>) # npos
    THEN <<[op |-> "GreaterThanOrEqual", pos |-> find(expr, <<">", "=">>)]>>
  ELSE IF find(expr, <<"<", "=">>) # npos
    THEN <<[op |-> "LessThanOrEqual", pos |-> find(expr, <<"<", "=">>)]>>
  ELSE IF find(expr, <<"!", "=">>) # npos
    THEN <<[op |-> "NotEqual", pos |-> find(expr, <<"!", "=">>)]>>
  ELSE IF find(expr, <<"=">>) # npos
    THEN <<[op |-> "Equal", pos |-> find(expr, <<"=">>)]>>
  ELSE IF find(expr, <<">">>) # npos
    THEN <<[op |-> "GreaterThan", pos |-> find(expr, <<">">>)]>>
  ELSE IF find(expr, <<"<">>) # npos
    THEN <<[op |-> "LessThan", pos |-> find(expr, <<"<">>)]>>
  ELSE << >>

\* A plausible slip: every space and tab is dropped, those inside too.
trim_every_blank(s) == SelectSeq(s, LAMBDA c : c \notin {" ", "\t"})

\* The trim lambda of parse_filter: spaces and tabs off both ends.
trim(s) ==
  LET keep == {i \in 1..Len(s) : s[i] \notin {" ", "\t"}}
  IN IF keep = {} THEN << >>
     ELSE SubSeq(s, CHOOSE i \in keep : \A j \in keep : i <= j,
                    CHOOSE i \in keep : \A j \in keep : i >= j)

\* A plausible slip: the table of the six sort fields used for filters.
parse_filter_field_six(field) ==
  IF field = S_id THEN <<"Id">>
  ELSE IF field = S_title THEN <<"Title">>
  ELSE IF field = S_status THEN <<"Status">>
  ELSE IF field = S_priority THEN <<"Priority">>
  ELSE IF field = S_created_date THEN <<"CreatedDate">>
  ELSE IF field = S_due_date THEN <<"DueDate">>
  ELSE << >>

parse_filter_field(field) ==
  IF field = S_id THEN <<"Id">>
  ELSE IF field = S_title THEN <<"Title">>
  ELSE IF field = S_status THEN <<"Status">>
  ELSE IF field = S_priority THEN <<"Priority">>
  ELSE IF field = S_created_date THEN <<"CreatedDate">>
  ELSE IF field = S_due_date THEN <<"DueDate">>
  ELSE IF field = S_assignee THEN <<"Assignee">>
  ELSE IF field = S_description THEN <<"Description">>
  ELSE << >>

parse_sort_field(field) ==
  IF field = S_id THEN <<"Id">>
  ELSE IF field = S_title THEN <<"Title">>
  ELSE IF field = S_status THEN <<"Status">>
  ELSE IF field = S_priority THEN <<"Priority">>
  ELSE IF field = S_created_date THEN <<"CreatedDate">>
  ELSE IF field = S_due_date THEN <<"DueDate">>
  ELSE << >>

parse_filter(expr) ==
  IF expr = << >> THEN << >>
  ELSE LET op_result == find_operator(expr) IN
    IF op_result = << >> THEN << >>
    ELSE LET op == op_result[1].op
             op_pos == op_result[1].pos
             field_str == trim(substr_n(expr, 0, op_pos))
             value_str == trim(substr(expr, op_pos +
                 (IF op \in {"Equal", "GreaterThan", "LessThan"} THEN 1 ELSE 2)))
             field == parse_filter_field(field_str)
         IN IF field = << >> THEN << >>
            ELSE <<[field |-> field[1], op |-> op, value |-> value_str]>>

\* A plausible slip: a direction that is none of the four words is an
\* error.
parse_sort_strict(expr) ==
  IF expr = << >> THEN << >>
  ELSE LET space_pos == find(expr, <<" ">>)
           field_str == IF space_pos = npos THEN expr
                        ELSE substr_n(expr, 0, space_pos)
           direction_str == IF space_pos = npos THEN S_asc
                            ELSE substr(expr, space_pos + 1)
           field == parse_sort_field(field_str)
       IN IF field = << >> THEN << >>
          ELSE IF direction_str \in {S_desc, S_descending}
            THEN <<[field |-> field[1], direction |-> "Descending"]>>
          ELSE IF direction_str \in {S_asc, S_ascending}
            THEN <<[field |-> field[1], direction |-> "Ascending"]>>
          ELSE << >>

parse_sort(expr) ==
  IF expr = << >> THEN << >>
  ELSE LET space_pos == find(expr, <<" ">>)
           field_str == IF space_pos = npos THEN expr
                        ELSE substr_n(expr, 0, space_pos)
           direction_str == IF space_pos = npos THEN S_asc
                            ELSE substr(expr, space_pos + 1)
           field == parse_sort_field(field_str)
       IN IF field = << >> THEN << >>
          ELSE <<[field |-> field[1],
                  direction |-> IF direction_str \in {S_desc, S_descending}
                                  THEN "Descending" ELSE "Ascending"]>>

(***************************************************************************)
(* std::stoi as make_predicate uses it: leading white space is skipped, an *)
(* optional sign, then the longest run of digits; what follows the digits  *)
(* is ignored.  No digit: std::invalid_argument.  Outside int:             *)
(* std::out_of_range.  << >> stands for either exception.                  *)
(***************************************************************************)
Digits == <<"0", "1", "2", "3", "4", "5", "6", "7", "8", "9">>
IsDigit(c) == \E i \in 1..Len(Digits) : Digits[i] = c
DigitVal(c) == (CHOOSE i \in 1..Len(Digits) : Digits[i] = c) - 1
INT_MAX == (2^30 - 1) + 2^30

RECURSIVE SkipSpace(_)
SkipSpace(s) ==
  IF s # << >> /\ Head(s) \in {" ", "\t"} THEN SkipSpace(Tail(s)) ELSE s

RECURSIVE DigitRun(_)
DigitRun(s) ==
  IF s # << >> /\ IsDigit(Head(s)) THEN <<Head(s)>> \o DigitRun(Tail(s))
  ELSE << >>

RECURSIVE DigitsValue(_)
DigitsValue(ds) ==
  IF ds = << >> THEN 0
  ELSE 10 * DigitsValue(SubSeq(ds, 1, Len(ds) - 1)) + DigitVal(ds[Len(ds)])

stoi(str) ==
  LET s == SkipSpace(str)
      neg == s # << >> /\ Head(s) = "-"
      body == IF s # << >> /\ Head(s) \in {"-", "+"} THEN Tail(s) ELSE s
      ds == DigitRun(body)
      n == IF neg THEN 0 - DigitsValue(ds) ELSE DigitsValue(ds)
  IN IF ds = << >> THEN << >>
     ELSE IF n > INT_MAX \/ n < 0 - INT_MAX - 1 THEN << >>
     ELSE <<n>>

(***************************************************************************)
(* Database (database.cpp): the pure part of each operation.               *)
(***************************************************************************)
Task(id, title, status, priority, created_date, description, assignee, due_date, tags) ==
  [id |-> id, title |-> title, status |-> status, priority |-> priority,
   created_date |-> created_date, description |-> description,
   assignee |-> assignee, due_date |-> due_date, tags |-> tags]

\* The ids of a std::map<int, Task> in iteration order (ascending).
RECURSIVE Ascending(_)
Ascending(S) ==
  IF S = {} THEN << >>
  ELSE LET m == CHOOSE x \in S : \A y \in S : x <= y
       IN <<m>> \o Ascending(S \ {m})

Range(s) == {s[i] : i \in 1..Len(s)}

\* A plausible slip: on priority, > lets the equal ones through as >= does.
make_predicate_inclusive(filter, t) ==
  IF filter.field = "Priority" THEN
    LET target == stoi(filter.value) IN
    IF target = << >> THEN "throw"
    ELSE IF filter.op = "Equal" THEN
           IF t.priority = target[1] THEN "true" ELSE "false"
    ELSE IF filter.op = "NotEqual" THEN
           IF t.priority # target[1] THEN "true" ELSE "false"
    ELSE IF filter.op \in {"GreaterThanOrEqual", "GreaterThan"} THEN
           IF t.priority >= target[1] THEN "true" ELSE "false"
    ELSE IF filter.op = "LessThanOrEqual" THEN
           IF t.priority <= target[1] THEN "true" ELSE "false"
    ELSE IF filter.op = "LessThan" THEN
           IF t.priority < target[1] THEN "true" ELSE "false"
    ELSE "false"
  ELSE IF filter.field \in {"Status", "Title", "CreatedDate"} THEN
    LET field == IF filter.field = "Status" THEN t.status
                 ELSE IF filter.field = "Title" THEN t.title
                 ELSE t.created_date
    IN IF filter.op = "Equal" THEN
         IF field = filter.value THEN "true" ELSE "false"
       ELSE IF filter.op = "NotEqual" THEN
         IF field # filter.value THEN "true" ELSE "false"
       ELSE "false"
  ELSE "true"

\* The lambda make_predicate returns, run on task t: "true", "false", or
\* "throw" when std::stoi raises.
make_predicate(filter, t) ==
  IF filter.field = "Priority" THEN
    LET target == stoi(filter.value) IN
    IF target = << >> THEN "throw"
    ELSE IF filter.op = "Equal" THEN
           IF t.priority = target[1] THEN "true" ELSE "false"
    ELSE IF filter.op = "NotEqual" THEN
           IF t.priority # target[1] THEN "true" ELSE "false"
    ELSE IF filter.op = "GreaterThanOrEqual" THEN
           IF t.priority >= target[1] THEN "true" ELSE "false"
    ELSE IF filter.op = "LessThanOrEqual" THEN
           IF t.priority <= target[1] THEN "true" ELSE "false"
    ELSE IF filter.op = "GreaterThan" THEN
           IF t.priority > target[1] THEN "true" ELSE "false"
    ELSE IF filter.op = "LessThan" THEN
           IF t.priority < target[1] THEN "true" ELSE "false"
    ELSE "false"
  ELSE IF filter.field = "Status" THEN
    IF filter.op = "Equal" THEN
      IF t.status = filter.value THEN "true" ELSE "false"
    ELSE IF filter.op = "NotEqual" THEN
      IF t.status # filter.value THEN "true" ELSE "false"
    ELSE "false"
  ELSE IF filter.field = "Title" THEN
    IF filter.op = "Equal" THEN
      IF t.title = filter.value THEN "true" ELSE "false"
    ELSE IF filter.op = "NotEqual" THEN
      IF t.title # filter.value THEN "true" ELSE "false"
    ELSE "false"
  ELSE IF filter.field = "CreatedDate" THEN
    IF filter.op = "Equal" THEN
      IF t.created_date = filter.value THEN "true" ELSE "false"
    ELSE IF filter.op = "NotEqual" THEN
      IF t.created_date # filter.value THEN "true" ELSE "false"
    ELSE "false"
  ELSE "true"

\* The comparator make_comparator returns: does a come before b.
make_comparator(sort, a, b) ==
  IF sort.field = "Priority" THEN
    IF sort.direction = "Ascending" THEN a.priority < b.priority
    ELSE a.priority > b.priority
  ELSE IF sort.field = "Title" THEN
    IF sort.direction = "Ascending" THEN StrLess(a.title, b.title)
    ELSE StrLess(b.title, a.title)
  ELSE IF sort.field = "Status" THEN
    IF sort.direction = "Ascending" THEN StrLess(a.status, b.status)
    ELSE StrLess(b.status, a.status)
  ELSE
    IF sort.direction = "Ascending" THEN a.id < b.id ELSE a.id > b.id

\* A plausible slip: the map is walked from its end.
RECURSIVE Descending(_)
Descending(S) ==
  IF S = {} THEN << >>
  ELSE LET m == CHOOSE x \in S : \A y \in S : x >= y
       IN <<m>> \o Descending(S \ {m})

reset_view_backwards(tasks) == Descending(DOMAIN tasks)

\* reset_view: a pointer to every task of the map, in the map's order.
reset_view(tasks) == Ascending(DOMAIN tasks)

\* A plausible slip: each survivor is put in front of the ones found so far.
RECURSIVE RemoveIfPrepending(_, _, _, _, _)
RemoveIfPrepending(tasks, view, filter, i, kept) ==
  IF i > Len(view) THEN [view |-> kept, threw |-> FALSE]
  ELSE LET r == make_predicate(filter, tasks[view[i]]) IN
    IF r = "throw"
      THEN [view |-> kept \o SubSeq(view, Len(kept) + 1, Len(view)),
            threw |-> TRUE]
    ELSE RemoveIfPrepending(tasks, view, filter, i + 1,
                            IF r = "true" THEN <<view[i]>> \o kept ELSE kept)

\* std::remove_if followed by erase, as apply_filter runs it.  The
\* predicate is called on the elements in order; the survivors are moved
\* to the front.  When a call throws, erase never runs: the array keeps
\* its length, holding the survivors so far followed by what was there.
RECURSIVE RemoveIf(_, _, _, _, _)
RemoveIf(tasks, view, filter, i, kept) ==
  IF i > Len(view) THEN [view |-> kept, threw |-> FALSE]
  ELSE LET r == make_predicate(filter, tasks[view[i]]) IN
    IF r = "throw"
      THEN [view |-> kept \o SubSeq(view, Len(kept) + 1, Len(view)),
            threw |-> TRUE]
    ELSE RemoveIf(tasks, view, filter, i + 1,
                  IF r = "true" THEN Append(kept, view[i]) ELSE kept)

\* A plausible slip: the filter is run over the whole store, not the view.
apply_filter_over_store(tasks, view, filter) ==
  RemoveIf(tasks, Ascending(DOMAIN tasks), filter, 1, << >>)

apply_filter(tasks, view, filter) == RemoveIf(tasks, view, filter, 1, << >>)

\* std::stable_sort: each element goes in front of the first element
\* already placed that it must precede, and behind every other.
RECURSIVE InsertStable(_, _, _, _)
InsertStable(tasks, sorted, x, sort) ==
  IF sorted = << >> THEN <<x>>
  ELSE IF make_comparator(sort, tasks[x], tasks[Head(sorted)])
    THEN <<x>> \o sorted
  ELSE <<Head(sorted)>> \o InsertStable(tasks, Tail(sorted), x, sort)

RECURSIVE StableSort(_, _, _, _)
StableSort(tasks, view, sort, n) ==
  IF n = 0 THEN << >>
  ELSE InsertStable(tasks, StableSort(tasks, view, sort, n - 1), view[n], sort)

\* A plausible slip: an ordered set in place of a sort; of two elements
\* neither of which precedes the other, only the first is kept.
RECURSIVE InsertUnique(_, _, _, _)
InsertUnique(tasks, sorted, x, sort) ==
  IF sorted = << >> THEN <<x>>
  ELSE IF make_comparator(sort, tasks[x], tasks[Head(sorted)])
    THEN <<x>> \o sorted
  ELSE IF ~make_comparator(sort, tasks[Head(sorted)], tasks[x]) THEN sorted
  ELSE <<Head(sorted)>> \o InsertUnique(tasks, Tail(sorted), x, sort)

RECURSIVE SortUnique(_, _, _, _)
SortUnique(tasks, view, sort, n) ==
  IF n = 0 THEN << >>
  ELSE InsertUnique(tasks, SortUnique(tasks, view, sort, n - 1), view[n], sort)

apply_sort_as_set(tasks, view, sort) == SortUnique(tasks, view, sort, Len(view))

apply_sort(tasks, view, sort) == StableSort(tasks, view, sort, Len(view))

\* filter_by_tag and filter_no_tags have no statement in their bodies.
filter_by_tag(tasks, view, tag) == view
filter_no_tags(tasks, view) == view

\* A plausible slip: insert in place of insert_or_assign, which leaves the
\* task already stored under an id where it is.
RECURSIVE insert_all_keeping_first(_, _)
insert_all_keeping_first(m, tasks) ==
  IF tasks = << >> THEN m
  ELSE LET t == Head(tasks)
           m1 == [k \in (DOMAIN m) \cup {t.id} |->
                    IF k \in DOMAIN m THEN m[k] ELSE t]
       IN insert_all_keeping_first(m1, Tail(tasks))

\* load: insert_or_assign of every task in turn (a later task with the same
\* id replaces the earlier one).
RECURSIVE insert_all(_, _)
insert_all(m, tasks) ==
  IF tasks = << >> THEN m
  ELSE LET t == Head(tasks)
           m1 == [k \in (DOMAIN m) \cup {t.id} |-> IF k = t.id THEN t ELSE m[k]]
       IN insert_all(m1, Tail(tasks))

EmptyMap == [k \in {} |-> << >>]

\* get_task_by_id: the pointer to the stored task, in a sequence; the empty
\* sequence is nullptr.
get_task_by_id(tasks, id) == IF id \in DOMAIN tasks THEN <<id>> ELSE << >>

\* total_task_count: tasks_.size().
total_task_count(tasks) == Cardinality(DOMAIN tasks)

\* rebuild_indices.
RECURSIVE Concat(_)
Concat(ss) == IF ss = << >> THEN << >> ELSE Head(ss) \o Concat(Tail(ss))

status_index(tasks) ==
  LET ids == Ascending(DOMAIN tasks)
  IN [s \in {tasks[k].status : k \in DOMAIN tasks} |->
        SelectSeq(ids, LAMBDA k : tasks[k].status = s)]

\* A plausible slip: only the first tag of each task goes into the index.
tag_index_first_tag(tasks) ==
  LET ids == Ascending(DOMAIN tasks)
      first(k) == IF tasks[k].tags = << >> THEN {} ELSE {Head(tasks[k].tags)}
  IN [g \in UNION {first(k) : k \in DOMAIN tasks} |->
        SelectSeq(ids, LAMBDA k : g \in first(k))]

tag_index(tasks) ==
  LET ids == Ascending(DOMAIN tasks)
      hits(k, g) == [j \in 1..Len(SelectSeq(tasks[k].tags, LAMBDA x : x = g))
                       |-> k]
  IN [g \in UNION {Range(tasks[k].tags) : k \in DOMAIN tasks} |->
        Concat([i \in 1..Len(ids) |-> hits(ids[i], g)])]

\* A plausible slip: the ResetFilters case left as empty as the Load case.
RECURSIVE replay_loop_without_reset(_, _, _)
replay_loop_without_reset(tasks, view, actions) ==
  IF actions = << >> THEN view
  ELSE LET a == Head(actions)
           v1 == IF a.type = "Filter" THEN
                   LET spec == parse_filter(a.payload)
                   IN IF spec # << >> THEN apply_filter(tasks, view, spec[1]).view
                      ELSE view
                 ELSE IF a.type = "Sort" THEN
                   LET spec == parse_sort(a.payload)
                   IN IF spec # << >> THEN apply_sort(tasks, view, spec[1])
                      ELSE view
                 ELSE IF a.type = "FindByTag" THEN
                   filter_by_tag(tasks, view, a.payload)
                 ELSE view
       IN replay_loop_without_reset(tasks, v1, Tail(actions))

\* A plausible slip: the try block around the whole loop, so that the first
\* entry that fails to compile or to apply ends the replay.
RECURSIVE replay_loop_aborting(_, _, _)
replay_loop_aborting(tasks, view, actions) ==
  IF actions = << >> THEN view
  ELSE LET a == Head(actions)
           filter_spec == parse_filter(a.payload)
           sort_spec == parse_sort(a.payload)
           r == apply_filter(tasks, view, filter_spec[1])
       IN IF a.type = "Filter" THEN
            IF filter_spec = << >> \/ r.threw THEN view
            ELSE replay_loop_aborting(tasks, r.view, Tail(actions))
          ELSE IF a.type = "Sort" THEN
            IF sort_spec = << >> THEN view
            ELSE replay_loop_aborting(tasks, apply_sort(tasks, view, sort_spec[1]),
                                      Tail(actions))
          ELSE IF a.type = "ResetFilters" THEN
            replay_loop_aborting(tasks, reset_view(tasks), Tail(actions))
          ELSE replay_loop_aborting(tasks, view, Tail(actions))

\* replay_history's loop: each entry in turn; an entry that fails to parse
\* is skipped, an exception is caught and the loop goes on with the view
\* as the failed call left it.
RECURSIVE replay_loop(_, _, _)
replay_loop(tasks, view, actions) ==
  IF actions = << >> THEN view
  ELSE LET a == Head(actions)
           v1 == IF a.type = "Filter" THEN
                   LET spec == parse_filter(a.payload)
                   IN IF spec # << >> THEN apply_filter(tasks, view, spec[1]).view
                      ELSE view
                 ELSE IF a.type = "Sort" THEN
                   LET spec == parse_sort(a.payload)
                   IN IF spec # << >> THEN apply_sort(tasks, view, spec[1])
                      ELSE view
                 ELSE IF a.type = "FindByTag" THEN
                   filter_by_tag(tasks, view, a.payload)
                 ELSE IF a.type = "ResetFilters" THEN reset_view(tasks)
                 ELSE view
       IN replay_loop(tasks, v1, Tail(actions))

\* A plausible slip: the replay starts from the view it finds.
replay_history_no_reset(tasks, view, actions) == replay_loop(tasks, view, actions)

\* replay_history: reset_view(), then the loop.
replay_history(tasks, view, actions) ==
  replay_loop(tasks, reset_view(tasks), actions)

(***************************************************************************)
(* Database: the aggregations (database.cpp 243-300).                      *)
(***************************************************************************)
NoStats == [todo_count |-> 0, in_progress_count |-> 0, done_count |-> 0,
            other_count |-> 0]

\* A plausible slip: the loop runs over the store, not over the view.
status_stats_of_store(tasks, view) ==
  LET n(s) == Cardinality({k \in DOMAIN tasks : tasks[k].status = s})
  IN [todo_count |-> n(S_todo), in_progress_count |-> n(S_in_progress),
      done_count |-> n(S_done),
      other_count |-> Cardinality({k \in DOMAIN tasks :
                        tasks[k].status \notin {S_todo, S_in_progress, S_done}})]

\* status_stats: one counter incremented per element of the view.
RECURSIVE status_stats(_, _)
status_stats(tasks, view) ==
  IF view = << >> THEN NoStats
  ELSE LET stats == status_stats(tasks, SubSeq(view, 1, Len(view) - 1))
           status == tasks[view[Len(view)]].status
       IN IF status = S_todo
            THEN [stats EXCEPT !.todo_count = @ + 1]
          ELSE IF status = S_in_progress
            THEN [stats EXCEPT !.in_progress_count = @ + 1]
          ELSE IF status = S_done
            THEN [stats EXCEPT !.done_count = @ + 1]
          ELSE [stats EXCEPT !.other_count = @ + 1]

\* StatusStats::total.
total(stats) ==
  stats.todo_count + stats.in_progress_count + stats.done_count + stats.other_count

view_task_count(view) == Len(view)

INT_MIN == (0 - INT_MAX) - 1

\* acc + task->priority on two ints.  A sum outside int is undefined
\* behaviour; wrapped is what two's complement arithmetic leaves.
IntAdd(a, b) ==
  IF b > 0 /\ a > INT_MAX - b
    THEN [overflow |-> TRUE, wrapped |-> ((a - INT_MAX) - 1) + ((b - INT_MAX) - 1)]
  ELSE IF b < 0 /\ a < INT_MIN - b
    THEN [overflow |-> TRUE, wrapped |-> ((a + INT_MAX) + 1) + ((b + INT_MAX) + 1)]
  ELSE [overflow |-> FALSE, wrapped |-> a + b]

\* std::accumulate over the view with the lambda (int acc, task) ->
\* acc + task->priority, from 0.0: the running sum passes through an int
\* at every step.
RECURSIVE accumulate(_, _)
accumulate(tasks, view) ==
  IF view = << >> THEN [overflow |-> FALSE, sum |-> 0]
  ELSE LET before == accumulate(tasks, SubSeq(view, 1, Len(view) - 1))
           r == IntAdd(before.sum, tasks[view[Len(view)]].priority)
       IN [overflow |-> before.overflow \/ r.overflow, sum |-> r.wrapped]

\* What the build makes of a signed overflow.
OverflowOutcomes == {"wraps", "traps"}

\* average_priority: the double it returns, as the fraction num / den;
\* trapped when the overflow ends the process.
average_priority(tasks, view, outcome) ==
  IF view = << >> THEN [trapped |-> FALSE, num |-> 0, den |-> 1]
  ELSE LET a == accumulate(tasks, view) IN
    IF a.overflow /\ outcome = "traps"
      THEN [trapped |-> TRUE, num |-> 0, den |-> 1]
      ELSE [trapped |-> FALSE, num |-> a.sum, den |-> Len(view)]

\* overdue_count: the body is "return 0;".
overdue_count(tasks, view, today_iso) == 0

(***************************************************************************)
(* The inputs of the model.                                                *)
(***************************************************************************)
S_2023 == <<"2", "0", "2", "3">>
S_2024 == <<"2", "0", "2", "4">>
S_2025 == <<"2", "0", "2", "5">>

\* The scenario of the specification, {(1,P3,todo), (2,P5,todo),
\* (3,P1->P3,done)}, with titles, dates and tags added: tasks 1 and 3 share
\* a priority and a due date, tasks 2 and 3 share a title.
TasksA ==
  << Task(1, <<"b">>, S_todo, 3, S_2024, << >>, << >>, <<S_2025>>, <<<<"x">>>>),
     Task(2, <<"a">>, S_todo, 5, S_2024, << >>, <<<<"m", "e">>>>, << >>, << >>),
     Task(3, <<"a">>, S_done, 3, S_2023, <<<<"d">>>>, << >>, <<S_2025>>,
          <<<<"x">>, <<"y">>>>) >>

\* A list with a repeated id and a status outside the usual three.
TasksB ==
  << Task(2, <<"c">>, S_todo, 1, S_2024, << >>, << >>, << >>, << >>),
     Task(4, <<"d">>, S_in_progress, 2, S_2025, << >>, << >>, <<S_2024>>,
          <<<<"y">>>>),
     Task(2, <<"d">>, <<"h", "o", "l", "d">>, 4, S_2025, << >>, << >>,
          <<S_2023>>, <<<<"x">>, <<"x">>>>) >>

TaskLists == {TasksA, TasksB, << >>}

FilterTexts ==
  { S_status \o <<"=">> \o S_todo,
    <<" ">> \o S_status \o <<" ", "=", "\t">> \o S_todo \o <<" ">>,
    S_status \o <<"!", "=">> \o S_done,
    S_priority \o <<">", "=">> \o <<"3">>,
    S_priority \o <<"<">> \o <<"5">>,
    S_priority \o <<"=">> \o <<"a", "b", "c">>,
    S_priority \o <<"=">> \o <<"3">>,
    S_priority \o <<"!", "=">> \o <<"3">>,
    S_priority \o <<">">> \o <<"3">>,
    S_priority \o <<"<", "=">> \o <<"3">>,
    S_id \o <<"=">> \o <<"2">>,
    S_title \o <<">">> \o <<"a">>,
    S_due_date \o <<"<">> \o S_2025,
    <<"b", "o", "g", "u", "s", "=", "1">>,
    S_todo,
    << >> }

SortTexts ==
  { S_priority,
    S_priority \o <<" ">> \o S_desc,
    S_title \o <<" ">> \o S_asc,
    S_status \o <<" ">> \o S_descending,
    S_due_date,
    S_id \o <<" ">> \o S_desc,
    S_created_date,
    S_priority \o <<" ", "u", "p">>,
    <<"b", "o", "g", "u", "s">>,
    << >> }

\* What the compiler makes of these texts.
CompiledFilters == {parse_filter(x)[1] : x \in {y \in FilterTexts : parse_filter(y) # << >>}}
CompiledSorts == {parse_sort(x)[1] : x \in {y \in SortTexts : parse_sort(y) # << >>}}

\* The filters and sorts that disturb the view between two replays.
BetweenFilters == {parse_filter(S_status \o <<"=">> \o S_todo)[1],
                   parse_filter(S_priority \o <<">", "=">> \o <<"3">>)[1]}
BetweenSorts == {parse_sort(S_priority \o <<" ">> \o S_desc)[1],
                 parse_sort(S_title \o <<" ">> \o S_asc)[1]}

Tags == {<<"x">>, <<"z">>}

ViewAction(type, payload) == [type |-> type, payload |-> payload]

ReplayEntries ==
  { ViewAction("Filter", S_status \o <<"=">> \o S_todo),
    ViewAction("Filter", S_priority \o <<"=">> \o <<"a", "b", "c">>),
    ViewAction("Sort", S_priority \o <<" ">> \o S_desc),
    ViewAction("ResetFilters", << >>),
    ViewAction("Filter", S_todo),
    ViewAction("Sort", <<"b", "o", "g", "u", "s">>) }

SeqsUpTo(S, n) == UNION {[1..k -> S] : k \in 0..n}

ReplayLogs == SeqsUpTo(ReplayEntries, MaxLog)

(***************************************************************************)
(* What the model remembers of the operation just performed.               *)
(*   op    its name                                                        *)
(*   arg   its argument, in a sequence                                     *)
(*   pre   the view before it                                              *)
(*   threw whether it left by an exception                                 *)
(*   prior replay_history: the result of the previous replay if that       *)
(*         replayed the same log over the same store                       *)
(*   chain apply_filter straight after a completed apply_filter: that      *)
(*         filter and the view before it                                   *)
(***************************************************************************)
Op(op, arg, pre) ==
  [op |-> op, arg |-> arg, pre |-> pre, threw |-> FALSE, prior |-> << >>,
   chain |-> << >>, ret |-> "void", clean |-> TRUE]

\* The threads, and a thread that is in no call: the local variables of
\* persist() exist only while it runs.
Threads == {"t1", "t2"}

NotInPersist == [pc |-> "idle", filepath_copy |-> << >>, history_copy |-> << >>,
                 file |-> "none"]

NoThreads == [t \in Threads |-> NotInPersist]

NoMemo == [log |-> << >>, result |-> << >>, valid |-> FALSE]

(***************************************************************************)
(* Database as its tests drive it: one object, its public operations.      *)
(***************************************************************************)
outsideDatabase == <<current_filepath_, storage_filepath_, history_,
                     target_file, tmp_file, process, io_failed, threads>>

\* A plausible slip: load without the clear() calls, the new tasks going
\* into the map on top of the old ones.
Database_load_merging(tasks) ==
  LET m == insert_all(tasks_, tasks) IN
  /\ tasks_' = m
  /\ view_' = reset_view(m)
  /\ status_index_' = status_index(m)
  /\ tag_index_' = tag_index(m)
  /\ last' = Op("load", <<tasks>>, view_)
  /\ memo' = [memo EXCEPT !.valid = FALSE, !.result = << >>]
  /\ UNCHANGED outsideDatabase

Database_load(tasks) ==
  LET m == insert_all(EmptyMap, tasks) IN
  /\ tasks_' = m
  /\ view_' = reset_view(m)
  /\ status_index_' = status_index(m)
  /\ tag_index_' = tag_index(m)
  /\ last' = Op("load", <<tasks>>, view_)
  /\ memo' = [memo EXCEPT !.valid = FALSE, !.result = << >>]
  /\ UNCHANGED outsideDatabase

\* A plausible slip: reset_view without its view_.clear().
Database_reset_view_appending ==
  /\ view_' = view_ \o reset_view(tasks_)
  /\ last' = Op("reset_view", << >>, view_)
  /\ UNCHANGED <<tasks_, status_index_, tag_index_, memo>>
  /\ UNCHANGED outsideDatabase

Database_reset_view ==
  /\ view_' = reset_view(tasks_)
  /\ last' = Op("reset_view", << >>, view_)
  /\ UNCHANGED <<tasks_, status_index_, tag_index_, memo>>
  /\ UNCHANGED outsideDatabase

\* A plausible slip: the filter erases from the store what it removes from
\* the view.
Database_apply_filter_erasing(filter) ==
  LET r == apply_filter(tasks_, view_, filter)
      m == [k \in Range(r.view) |-> tasks_[k]]
  IN
  /\ view_' = r.view
  /\ tasks_' = m
  /\ status_index_' = status_index(m)
  /\ tag_index_' = tag_index(m)
  /\ last' = [Op("apply_filter", <<filter>>, view_) EXCEPT !.threw = r.threw]
  /\ UNCHANGED memo
  /\ UNCHANGED outsideDatabase

Database_apply_filter(filter) ==
  LET r == apply_filter(tasks_, view_, filter) IN
  /\ view_' = r.view
  /\ last' = [Op("apply_filter", <<filter>>, view_) EXCEPT
                !.threw = r.threw,
                !.chain = IF last.op = "apply_filter" /\ ~last.threw
                            THEN <<[filter |-> last.arg[1], base |-> last.pre]>>
                            ELSE << >>]
  /\ UNCHANGED <<tasks_, status_index_, tag_index_, memo>>
  /\ UNCHANGED outsideDatabase

Database_apply_sort(sort) ==
  /\ view_' = apply_sort(tasks_, view_, sort)
  /\ last' = Op("apply_sort", <<sort>>, view_)
  /\ UNCHANGED <<tasks_, status_index_, tag_index_, memo>>
  /\ UNCHANGED outsideDatabase

Database_filter_by_tag(tag) ==
  /\ view_' = filter_by_tag(tasks_, view_, tag)
  /\ last' = Op("filter_by_tag", <<tag>>, view_)
  /\ UNCHANGED <<tasks_, status_index_, tag_index_, memo>>
  /\ UNCHANGED outsideDatabase

Database_filter_no_tags ==
  /\ view_' = filter_no_tags(tasks_, view_)
  /\ last' = Op("filter_no_tags", << >>, view_)
  /\ UNCHANGED <<tasks_, status_index_, tag_index_, memo>>
  /\ UNCHANGED outsideDatabase

Database_replay_history(actions) ==
  /\ view_' = replay_history(tasks_, view_, actions)
  /\ last' = Op("replay_history", actions, view_)
  /\ UNCHANGED <<tasks_, status_index_, tag_index_, memo>>
  /\ UNCHANGED outsideDatabase

InitDB ==
  /\ tasks_ = EmptyMap
  /\ view_ = << >>
  /\ status_index_ = EmptyMap
  /\ tag_index_ = EmptyMap
  /\ current_filepath_ = << >>
  /\ storage_filepath_ = << >>
  /\ history_ = << >>
  /\ target_file = << >>
  /\ tmp_file = << >>
  /\ process = "up"
  /\ io_failed = FALSE
  /\ last = Op("init", << >>, << >>)
  /\ memo = NoMemo
  /\ threads = NoThreads

NextDB ==
  \/ \E tasks \in TaskLists : Database_load(tasks)
  \/ Database_reset_view
  \/ \E filter \in CompiledFilters : Database_apply_filter(filter)
  \/ \E sort \in CompiledSorts : Database_apply_sort(sort)
  \/ \E tag \in Tags : Database_filter_by_tag(tag)
  \/ Database_filter_no_tags
  \/ \E actions \in ReplayLogs : Database_replay_history(actions)

SpecDB == InitDB /\ [][NextDB]_vars

(***************************************************************************)
(* Replay of one fixed action log, run again and again between other view  *)
(* operations and loads.  memo.log is the log; memo.result is what the     *)
(* previous replay over the present store produced.                        *)
(***************************************************************************)
\* The entries of the longer logs: one that narrows the view, one that
\* reorders it, and a Load entry.
PartEntries ==
  { ViewAction("Filter", S_status \o <<"=">> \o S_todo),
    ViewAction("Sort", S_priority \o <<" ">> \o S_desc),
    ViewAction("Load", << >>) }

LogParts == SeqsUpTo(PartEntries, MaxLog)

\* Two parts with a ResetFilters entry between them, MaxLog + 2 entries
\* at most.
ResetLogs ==
  {p[1] \o <<ViewAction("ResetFilters", << >>)>> \o p[2] :
     p \in {q \in LogParts \X LogParts : Len(q[1]) + Len(q[2]) <= MaxLog + 1}}

Database_replay_again ==
  /\ view_' = replay_history(tasks_, view_, memo.log)
  /\ last' = [Op("replay_history", memo.log, view_) EXCEPT
                !.prior = IF memo.valid THEN <<memo.result>> ELSE << >>]
  /\ memo' = [memo EXCEPT !.valid = TRUE, !.result = view_']
  /\ UNCHANGED <<tasks_, status_index_, tag_index_>>
  /\ UNCHANGED outsideDatabase

InitReplay ==
  /\ tasks_ = EmptyMap
  /\ view_ = << >>
  /\ status_index_ = EmptyMap
  /\ tag_index_ = EmptyMap
  /\ current_filepath_ = << >>
  /\ storage_filepath_ = << >>
  /\ history_ = << >>
  /\ target_file = << >>
  /\ tmp_file = << >>
  /\ process = "up"
  /\ io_failed = FALSE
  /\ last = Op("init", << >>, << >>)
  /\ \E log \in ReplayLogs \cup LogParts \cup ResetLogs :
       memo = [NoMemo EXCEPT !.log = log]
  /\ threads = NoThreads

NextReplay ==
  \/ \E tasks \in TaskLists : Database_load(tasks)
  \/ Database_reset_view
  \/ \E filter \in BetweenFilters : Database_apply_filter(filter)
  \/ \E sort \in BetweenSorts : Database_apply_sort(sort)
  \/ Database_replay_again

SpecReplay == InitReplay /\ [][NextReplay]_vars

(***************************************************************************)
(* The aggregations of a Database, asked between loads and view            *)
(* operations.  last.ret is what the query returned.                       *)
(***************************************************************************)
\* Two tasks whose priorities add up to more than an int holds, and one
\* with a negative priority.
TasksC ==
  << Task(1, <<"a">>, S_todo, INT_MAX, S_2024, << >>, << >>, <<S_2023>>, << >>),
     Task(2, <<"b">>, S_done, 1, S_2024, << >>, << >>, <<S_2023>>, << >>),
     Task(3, <<"c">>, <<"h", "o", "l", "d">>, 0 - 2, S_2024, << >>, << >>,
          << >>, << >>) >>

QueryTaskLists == TaskLists \cup {TasksC}

Todays == {S_2024, S_2025}

Query_load(tasks) ==
  /\ process = "up"
  /\ Database_load(tasks)

Query_reset_view ==
  /\ process = "up"
  /\ Database_reset_view

Query_apply_filter(filter) ==
  /\ process = "up"
  /\ Database_apply_filter(filter)

Query_apply_sort(sort) ==
  /\ process = "up"
  /\ Database_apply_sort(sort)

Database_status_stats ==
  /\ process = "up"
  /\ last' = [Op("status_stats", << >>, view_) EXCEPT
                !.ret = status_stats(tasks_, view_)]
  /\ UNCHANGED <<tasks_, view_, status_index_, tag_index_, memo>>
  /\ UNCHANGED outsideDatabase

Database_average_priority(outcome) ==
  LET r == average_priority(tasks_, view_, outcome) IN
  /\ process = "up"
  /\ outcome \in (IF accumulate(tasks_, view_).overflow
                    THEN OverflowOutcomes ELSE {"wraps"})
  /\ process' = IF r.trapped THEN "crashed" ELSE "up"
  /\ last' = [Op("average_priority", << >>, view_) EXCEPT !.ret = r]
  /\ UNCHANGED <<tasks_, view_, status_index_, tag_index_, memo, threads>>
  /\ UNCHANGED <<current_filepath_, storage_filepath_, history_, target_file,
                 tmp_file, io_failed>>

Database_overdue_count(today_iso) ==
  /\ process = "up"
  /\ last' = [Op("overdue_count", <<today_iso>>, view_) EXCEPT
                !.ret = overdue_count(tasks_, view_, today_iso)]
  /\ UNCHANGED <<tasks_, view_, status_index_, tag_index_, memo>>
  /\ UNCHANGED outsideDatabase

NextQuery ==
  \/ \E tasks \in QueryTaskLists : Query_load(tasks)
  \/ Query_reset_view
  \/ \E filter \in BetweenFilters : Query_apply_filter(filter)
  \/ \E sort \in BetweenSorts : Query_apply_sort(sort)
  \/ Database_status_stats
  \/ \E outcome \in OverflowOutcomes : Database_average_priority(outcome)
  \/ \E today_iso \in Todays : Database_overdue_count(today_iso)

SpecQuery == InitDB /\ [][NextQuery]_vars

(***************************************************************************)
(* ViewStorage (view_storage.cpp) and the two files it works on.           *)
(*                                                                         *)
(* The durable file holds either a whole JSON document or a torn one (a    *)
(* write that stopped part-way).  Of the temporary file only its state is  *)
(* kept: nothing ever reads it, persist() truncates it when it opens it.   *)
(***************************************************************************)
ViewOpTypes == {"Load", "Filter", "Sort", "ResetFilters", "FindByTag"}

\* A plausible slip: an underscore where the reader expects a hyphen.
to_string_underscore(t) ==
  IF t = "Load" THEN "load"
  ELSE IF t = "Filter" THEN "filter"
  ELSE IF t = "Sort" THEN "sort"
  ELSE IF t = "ResetFilters" THEN "reset_filters"
  ELSE IF t = "FindByTag" THEN "find_by_tag"
  ELSE "unknown"

to_string(t) ==
  IF t = "Load" THEN "load"
  ELSE IF t = "Filter" THEN "filter"
  ELSE IF t = "Sort" THEN "sort"
  ELSE IF t = "ResetFilters" THEN "reset-filters"
  ELSE IF t = "FindByTag" THEN "find-by-tag"
  ELSE "unknown"

view_op_type_from_string(s) ==
  IF s = "load" THEN <<"Load">>
  ELSE IF s = "filter" THEN <<"Filter">>
  ELSE IF s = "sort" THEN <<"Sort">>
  ELSE IF s = "reset-filters" THEN <<"ResetFilters">>
  ELSE IF s = "find-by-tag" THEN <<"FindByTag">>
  ELSE << >>

Torn == [torn |-> TRUE]

\* The document persist() builds: "filepath", and "history" as a list of
\* {"type", "payload"} objects.
json_data(filepath, history) ==
  [torn |-> FALSE,
   filepath |-> filepath,
   history |-> [i \in 1..Len(history) |->
                  [type |-> to_string(history[i].type),
                   payload |-> history[i].payload]]]

\* What the environment does to one persist() whose path is set.
\*   ok             every step succeeds
\*   open_fails     the temporary file cannot be opened: runtime_error
\*   write_fails    the stream goes bad part-way through operator<<; the
\*                  stream is not checked and the rename goes ahead
\*   rename_fails   std::filesystem::rename throws filesystem_error
\*   crash_writing  the process dies while the temporary file is written
\*   crash_written  the process dies between the write and the rename
PersistOutcomes == {"ok", "open_fails", "write_fails", "rename_fails",
                    "crash_writing", "crash_written"}

\* persist() with no path set dereferences an empty optional: undefined.
\* The build may die, may throw from the std::string copy, or may go on
\* with whatever bytes it finds as the path.
UndefinedOutcomes == {"ub_crash", "ub_throw", "ub_garbage"}

GarbagePath == <<"?">>

\* persist(): the files it leaves, whether it threw, whether the process
\* died in it.
persist(filepath, history, target, tmp, outcome) ==
  LET doc == json_data(IF filepath = << >> THEN GarbagePath ELSE filepath[1],
                       history)
  IN
  IF outcome = "ub_crash"
    THEN [target |-> target, tmp |-> tmp, threw |-> FALSE, died |-> TRUE]
  ELSE IF outcome = "ub_throw"
    THEN [target |-> target, tmp |-> tmp, threw |-> TRUE, died |-> FALSE]
  ELSE IF outcome = "open_fails"
    THEN [target |-> target, tmp |-> tmp, threw |-> TRUE, died |-> FALSE]
  ELSE IF outcome = "crash_writing"
    THEN [target |-> target, tmp |-> <<"torn">>, threw |-> FALSE, died |-> TRUE]
  ELSE IF outcome = "crash_written"
    THEN [target |-> target, tmp |-> <<"whole">>, threw |-> FALSE, died |-> TRUE]
  ELSE IF outcome = "rename_fails"
    THEN [target |-> target, tmp |-> <<"whole">>, threw |-> TRUE, died |-> FALSE]
  ELSE IF outcome = "write_fails"
    THEN [target |-> <<Torn>>, tmp |-> << >>, threw |-> FALSE, died |-> FALSE]
  ELSE [target |-> <<doc>>, tmp |-> << >>, threw |-> FALSE, died |-> FALSE]

OutcomesOf(filepath) ==
  IF filepath = << >> THEN UndefinedOutcomes ELSE PersistOutcomes

\* A plausible slip: the loop left at the first entry of unknown type.
RECURSIVE read_history_stopping(_)
read_history_stopping(entries) ==
  IF entries = << >> THEN << >>
  ELSE LET type == view_op_type_from_string(Head(entries).type)
       IN IF type = << >> THEN << >>
          ELSE <<ViewAction(type[1], Head(entries).payload)>>
               \o read_history_stopping(Tail(entries))

\* The entries load_from_storage() keeps: those whose type it knows.
RECURSIVE read_history(_)
read_history(entries) ==
  IF entries = << >> THEN << >>
  ELSE LET type == view_op_type_from_string(Head(entries).type)
       IN (IF type = << >> THEN << >>
           ELSE <<ViewAction(type[1], Head(entries).payload)>>)
          \o read_history(Tail(entries))

\* load_from_storage(): ret is "false" when there is no file, "threw" when
\* the file cannot be opened or is no JSON document, "true" otherwise, with
\* the path and the history it then holds.
load_from_storage(filepath, history, target, open_fails) ==
  IF target = << >>
    THEN [ret |-> "false", filepath |-> filepath, history |-> history]
  ELSE IF open_fails \/ target[1].torn
    THEN [ret |-> "threw", filepath |-> filepath, history |-> history]
  ELSE [ret |-> "true", filepath |-> <<target[1].filepath>>,
        history |-> read_history(target[1].history)]

(***************************************************************************)
(* ViewStorage as its tests drive it: instances made one after another     *)
(* over the same directory.                                                *)
(***************************************************************************)
StoragePaths == {<<"a", ".", "c", "s", "v">>}

StorageEntries ==
  { ViewAction("Load", << >>),
    ViewAction("Filter", S_status \o <<"=">> \o S_todo),
    ViewAction("Sort", S_priority \o <<" ">> \o S_desc),
    ViewAction("ResetFilters", << >>),
    ViewAction("FindByTag", <<"x">>) }

outsideStorage == <<tasks_, view_, status_index_, tag_index_,
                    current_filepath_, io_failed, memo, threads>>

\* What an operation on the storage leaves in `last`: ret its result,
\* clean whether the environment let every step succeed.
StorageOp(op, arg, ret, clean) ==
  [op |-> op, arg |-> arg, pre |-> << >>, threw |-> ret = "threw",
   prior |-> << >>, chain |-> << >>, ret |-> ret, clean |-> clean]

\* A new ViewStorage (after the old one is gone, or after the process
\* died).  prior hands on what a clean persist() just before it wrote from:
\* the path and the history of the instance that is going away.
ViewStorage_ViewStorage ==
  /\ storage_filepath_' = << >>
  /\ history_' = << >>
  /\ process' = "up"
  /\ last' = [StorageOp("ViewStorage", << >>, "void", TRUE) EXCEPT
                !.prior = IF last.op = "persist" /\ last.clean
                            THEN <<storage_filepath_, history_>> ELSE << >>]
  /\ UNCHANGED <<target_file, tmp_file>>
  /\ UNCHANGED outsideStorage

ViewStorage_set_filepath(filepath) ==
  /\ process = "up"
  /\ storage_filepath_' = <<filepath>>
  /\ history_' = << >>
  /\ last' = StorageOp("set_filepath", << >>, "void", TRUE)
  /\ UNCHANGED <<target_file, tmp_file, process>>
  /\ UNCHANGED outsideStorage

ViewStorage_push_action(action) ==
  /\ process = "up"
  /\ Len(history_) < MaxHistory
  /\ history_' = Append(history_, action)
  /\ last' = StorageOp("push_action", << >>, "void", TRUE)
  /\ UNCHANGED <<storage_filepath_, target_file, tmp_file, process>>
  /\ UNCHANGED outsideStorage

ViewStorage_clear_history ==
  /\ process = "up"
  /\ history_' = << >>
  /\ last' = StorageOp("clear_history", << >>, "void", TRUE)
  /\ UNCHANGED <<storage_filepath_, target_file, tmp_file, process>>
  /\ UNCHANGED outsideStorage

ViewStorage_clear ==
  /\ process = "up"
  /\ target_file' = << >>
  /\ storage_filepath_' = << >>
  /\ history_' = << >>
  /\ last' = StorageOp("clear", << >>, "void", TRUE)
  /\ UNCHANGED <<tmp_file, process>>
  /\ UNCHANGED outsideStorage

ViewStorage_persist(outcome) ==
  LET r == persist(storage_filepath_, history_, target_file, tmp_file, outcome)
  IN
  /\ process = "up"
  /\ outcome \in OutcomesOf(storage_filepath_)
  /\ target_file' = r.target
  /\ tmp_file' = r.tmp
  /\ process' = IF r.died THEN "crashed" ELSE "up"
  /\ last' = StorageOp("persist", << >>,
                       IF r.threw THEN "threw" ELSE "void", outcome = "ok")
  /\ UNCHANGED <<storage_filepath_, history_>>
  /\ UNCHANGED outsideStorage

ViewStorage_load_from_storage(open_fails) ==
  LET r == load_from_storage(storage_filepath_, history_, target_file,
                             open_fails)
  IN
  /\ process = "up"
  /\ storage_filepath_' = r.filepath
  /\ history_' = r.history
  /\ last' = [StorageOp("load_from_storage", << >>, r.ret, ~open_fails) EXCEPT
                !.prior = IF last.op = "ViewStorage" THEN last.prior ELSE << >>]
  /\ UNCHANGED <<target_file, tmp_file, process>>
  /\ UNCHANGED outsideStorage

InitVS ==
  /\ tasks_ = EmptyMap
  /\ view_ = << >>
  /\ status_index_ = EmptyMap
  /\ tag_index_ = EmptyMap
  /\ current_filepath_ = << >>
  /\ storage_filepath_ = << >>
  /\ history_ = << >>
  /\ target_file = << >>
  /\ tmp_file = << >>
  /\ process = "up"
  /\ io_failed = FALSE
  /\ last = [op |-> "ViewStorage", arg |-> << >>, pre |-> << >>,
             threw |-> FALSE, prior |-> << >>, chain |-> << >>,
             ret |-> "void", clean |-> TRUE]
  /\ memo = NoMemo
  /\ threads = NoThreads

NextVS ==
  \/ ViewStorage_ViewStorage
  \/ \E filepath \in StoragePaths : ViewStorage_set_filepath(filepath)
  \/ \E action \in StorageEntries : ViewStorage_push_action(action)
  \/ ViewStorage_clear_history
  \/ ViewStorage_clear
  \/ \E outcome \in PersistOutcomes \cup UndefinedOutcomes :
       ViewStorage_persist(outcome)
  \/ \E open_fails \in BOOLEAN : ViewStorage_load_from_storage(open_fails)

SpecVS == InitVS /\ [][NextVS]_vars

(***************************************************************************)
(* ViewStorage over a durable record it did not write itself: the file is  *)
(* there when the first instance is made and nothing writes it afterwards. *)
(***************************************************************************)
MaxRecord == 3

\* The {"type", "payload"} objects of such a record: three of types the
\* reader knows, one of the type to_string gives a value outside the enum,
\* and one whose type differs from a known one by a capital.
RecordEntries ==
  { [type |-> "filter", payload |-> S_status \o <<"=">> \o S_todo],
    [type |-> "sort", payload |-> S_priority \o <<" ">> \o S_desc],
    [type |-> "reset-filters", payload |-> << >>],
    [type |-> "unknown", payload |-> <<"x">>],
    [type |-> "Filter", payload |-> S_status \o <<"=">> \o S_todo] }

Records ==
  {[torn |-> FALSE, filepath |-> filepath, history |-> history] :
     filepath \in StoragePaths, history \in SeqsUpTo(RecordEntries, MaxRecord)}

InitRecord ==
  /\ tasks_ = EmptyMap
  /\ view_ = << >>
  /\ status_index_ = EmptyMap
  /\ tag_index_ = EmptyMap
  /\ current_filepath_ = << >>
  /\ storage_filepath_ = << >>
  /\ history_ = << >>
  /\ \E record \in Records : target_file = <<record>>
  /\ tmp_file = << >>
  /\ process = "up"
  /\ io_failed = FALSE
  /\ last = [op |-> "ViewStorage", arg |-> << >>, pre |-> << >>,
             threw |-> FALSE, prior |-> << >>, chain |-> << >>,
             ret |-> "void", clean |-> TRUE]
  /\ memo = NoMemo
  /\ threads = NoThreads

NextRecord ==
  \/ ViewStorage_ViewStorage
  \/ \E filepath \in StoragePaths : ViewStorage_set_filepath(filepath)
  \/ ViewStorage_clear_history
  \/ \E open_fails \in BOOLEAN : ViewStorage_load_from_storage(open_fails)

SpecRecord == InitRecord /\ [][NextRecord]_vars

(***************************************************************************)
(* One ViewStorage shared by threads.  set_filepath, push_action and       *)
(* clear_history hold mutex_ from start to end and are one step each.      *)
(* persist() is a sequence of steps; threads[t].pc says which was the last *)
(* one thread t took:                                                      *)
(*   called   filepath_copy = filepath()                 (line 47)         *)
(*   copied   the block under the lock_guard             (lines 50-55)     *)
(*   opened   std::ofstream ofs(tmp, binary | trunc)     (lines 69-71)     *)
(*   written  ofs << json_data.dump(2), the stream closes (lines 72-73)    *)
(*   idle     std::filesystem::rename(tmp, target_path)  (line 76)         *)
(* A stream writes to the file it opened, whatever name that file has by   *)
(* then: threads[t].file is "tmp" while the file is still the temporary    *)
(* one, "target" once another thread's rename has made it the durable      *)
(* file, "unlinked" when a later rename has replaced it there.             *)
(***************************************************************************)
ThreadPaths == {<<"a", ".", "c", "s", "v">>, <<"b", ".", "j", "s", "o", "n">>}

ThreadEntries == {ViewAction("Filter", S_status \o <<"=">> \o S_todo)}

outsideThreads == <<tasks_, view_, status_index_, tag_index_,
                    current_filepath_, process, io_failed, last, memo>>

\* What a file holds after a stream at offset 0 wrote doc into it: doc,
\* followed by what the file held beyond doc's length.  The file a trunc
\* open has just emptied holds no document (Torn).  Lengths are counted in
\* entries of the history.
overwrite(old, doc) ==
  IF old.torn THEN doc
  ELSE [torn |-> FALSE,
        filepath |-> doc.filepath,
        history |-> doc.history
                    \o SubSeq(old.history, Len(doc.history) + 1, Len(old.history))]

Concurrent_set_filepath(t, filepath) ==
  /\ threads[t].pc = "idle"
  /\ ViewStorage_set_filepath(filepath)

Concurrent_push_action(t, action) ==
  /\ threads[t].pc = "idle"
  /\ ViewStorage_push_action(action)

Concurrent_clear_history(t) ==
  /\ threads[t].pc = "idle"
  /\ ViewStorage_clear_history

\* persist() without a path is undefined (PersistOutcomes above); the
\* threads call it once a path is set, and no operation here unsets it.
persist_called(t) ==
  /\ threads[t].pc = "idle"
  /\ storage_filepath_ # << >>
  /\ threads' = [threads EXCEPT ![t].pc = "called",
                                ![t].filepath_copy = storage_filepath_]
  /\ UNCHANGED <<storage_filepath_, history_, target_file, tmp_file>>
  /\ UNCHANGED outsideThreads

persist_copied(t) ==
  /\ threads[t].pc = "called"
  /\ threads' = [threads EXCEPT ![t].pc = "copied",
                                ![t].filepath_copy = storage_filepath_,
                                ![t].history_copy = history_]
  /\ UNCHANGED <<storage_filepath_, history_, target_file, tmp_file>>
  /\ UNCHANGED outsideThreads

persist_opened(t) ==
  /\ threads[t].pc = "copied"
  /\ tmp_file' = <<Torn>>
  /\ threads' = [threads EXCEPT ![t].pc = "opened", ![t].file = "tmp"]
  /\ UNCHANGED <<storage_filepath_, history_, target_file>>
  /\ UNCHANGED outsideThreads

persist_written(t) ==
  LET doc == json_data(threads[t].filepath_copy[1], threads[t].history_copy)
      file == threads[t].file
  IN
  /\ threads[t].pc = "opened"
  /\ tmp_file' = IF file = "tmp" THEN <<overwrite(tmp_file[1], doc)>>
                 ELSE tmp_file
  /\ target_file' = IF file = "target" THEN <<overwrite(target_file[1], doc)>>
                    ELSE target_file
  /\ threads' = [threads EXCEPT ![t].pc = "written", ![t].file = "none"]
  /\ UNCHANGED <<storage_filepath_, history_>>
  /\ UNCHANGED outsideThreads

\* rename: the temporary file becomes the durable one, or the call throws
\* filesystem_error when the temporary name is gone.  Either way persist()
\* is over.
persist_renamed(t) ==
  /\ threads[t].pc = "written"
  /\ IF tmp_file = << >>
       THEN /\ threads' = [threads EXCEPT ![t] = NotInPersist]
            /\ UNCHANGED <<target_file, tmp_file>>
       ELSE /\ target_file' = tmp_file
            /\ tmp_file' = << >>
            /\ threads' = [u \in Threads |->
                  IF u = t THEN NotInPersist
                  ELSE [threads[u] EXCEPT
                          !.file = IF @ = "tmp" THEN "target"
                                   ELSE IF @ = "target" THEN "unlinked"
                                   ELSE @]]
  /\ UNCHANGED <<storage_filepath_, history_>>
  /\ UNCHANGED outsideThreads

InitThreads == InitVS

NextThreads ==
  \E t \in Threads :
    \/ \E filepath \in ThreadPaths : Concurrent_set_filepath(t, filepath)
    \/ \E action \in ThreadEntries : Concurrent_push_action(t, action)
    \/ Concurrent_clear_history(t)
    \/ persist_called(t)
    \/ persist_copied(t)
    \/ persist_opened(t)
    \/ persist_written(t)
    \/ persist_renamed(t)

SpecThreads == InitThreads /\ [][NextThreads]_vars

(***************************************************************************)
(* DataManager (data_manager.cpp): the readers, the database and the       *)
(* storage behind one object, made anew by every run of the program.       *)
(***************************************************************************)
ends_with(s, suffix) ==
  /\ Len(s) >= Len(suffix)
  /\ SubSeq(s, Len(s) - Len(suffix) + 1, Len(s)) = suffix

\* The first registered reader that can handle the path: CSVReader, then
\* JSONReader.
select_reader(filepath) ==
  IF ends_with(filepath, <<".", "c", "s", "v">>) THEN <<"CSVReader">>
  ELSE IF ends_with(filepath, <<".", "j", "s", "o", "n">>) THEN <<"JSONReader">>
  ELSE << >>

P_a_csv == <<"a", ".", "c", "s", "v">>
P_b_json == <<"b", ".", "j", "s", "o", "n">>
P_e_csv == <<"e", ".", "c", "s", "v">>
P_m_json == <<"m", ".", "j", "s", "o", "n">>
P_c_txt == <<"c", ".", "t", "x", "t">>

\* What the reader makes of the files of the working directory, which stay
\* as they are: a.csv and b.json hold tasks, e.csv holds a header and no
\* row, m.json is not JSON, and no other file exists (the reader throws).
read_tasks(filepath) ==
  IF filepath = P_a_csv THEN [threw |-> FALSE, tasks |-> TasksA]
  ELSE IF filepath = P_b_json THEN [threw |-> FALSE, tasks |-> TasksB]
  ELSE IF filepath = P_e_csv THEN [threw |-> FALSE, tasks |-> << >>]
  ELSE [threw |-> TRUE, tasks |-> << >>]

SourcePaths == {P_a_csv, P_b_json, P_e_csv, P_m_json, P_c_txt}

\* Database::load as a function of the tasks read.
loaded(tasks) ==
  LET m == insert_all(EmptyMap, tasks)
  IN [tasks_ |-> m, view_ |-> reset_view(m),
      status_index_ |-> status_index(m), tag_index_ |-> tag_index(m)]

\* The whole of a DataManager with the files it works on.
Here ==
  [tasks_ |-> tasks_, view_ |-> view_, status_index_ |-> status_index_,
   tag_index_ |-> tag_index_, current_filepath_ |-> current_filepath_,
   storage_filepath_ |-> storage_filepath_, history_ |-> history_,
   target_file |-> target_file, tmp_file |-> tmp_file,
   ret |-> "void", died |-> FALSE, failed |-> FALSE, raised |-> FALSE]

\* The state an operation leaves becomes the next state.
Becomes(d) ==
  /\ tasks_' = d.tasks_
  /\ view_' = d.view_
  /\ status_index_' = d.status_index_
  /\ tag_index_' = d.tag_index_
  /\ current_filepath_' = d.current_filepath_
  /\ storage_filepath_' = d.storage_filepath_
  /\ history_' = d.history_
  /\ target_file' = d.target_file
  /\ tmp_file' = d.tmp_file
  /\ process' = IF d.died THEN "crashed" ELSE "up"

\* storage_.persist() inside a DataManager operation.
persisted(d, outcome) ==
  LET r == persist(d.storage_filepath_, d.history_, d.target_file,
                   d.tmp_file, outcome)
  IN [d EXCEPT !.target_file = r.target, !.tmp_file = r.tmp,
               !.ret = IF r.threw THEN "threw" ELSE "void",
               !.died = r.died,
               !.failed = d.failed \/ outcome # "ok",
               !.raised = d.raised \/ r.threw]

\* A plausible slip: the path is set and the history is left as it was.
load_from_file_keeping_history(d, filepath, first, second) ==
  LET src == read_tasks(filepath)
      set == [d EXCEPT !.storage_filepath_ = <<filepath>>]
      p1 == persisted(set, first)
      db == loaded(src.tasks)
      ld == [p1 EXCEPT !.tasks_ = db.tasks_, !.view_ = db.view_,
                       !.status_index_ = db.status_index_,
                       !.tag_index_ = db.tag_index_,
                       !.current_filepath_ = filepath]
      p2 == persisted(ld, second)
  IN
  IF select_reader(filepath) = << >> THEN [d EXCEPT !.ret = "false"]
  ELSE IF src.threw THEN [d EXCEPT !.ret = "false", !.raised = TRUE]
  ELSE IF src.tasks = << >> THEN [d EXCEPT !.ret = "false"]
  ELSE IF p1.died THEN p1
  ELSE IF p1.ret = "threw" THEN [p1 EXCEPT !.ret = "false"]
  ELSE IF p2.died THEN p2
  ELSE IF p2.ret = "threw" THEN [p2 EXCEPT !.ret = "false"]
  ELSE [p2 EXCEPT !.ret = "true"]

\* DataManager::load_from_file.  first and second are what the environment
\* does to its two persist() calls.
load_from_file(d, filepath, first, second) ==
  LET src == read_tasks(filepath)
      set == [d EXCEPT !.storage_filepath_ = <<filepath>>,
                       !.history_ = << >>]
      p1 == persisted(set, first)
      db == loaded(src.tasks)
      ld == [p1 EXCEPT !.tasks_ = db.tasks_, !.view_ = db.view_,
                       !.status_index_ = db.status_index_,
                       !.tag_index_ = db.tag_index_,
                       !.current_filepath_ = filepath]
      p2 == persisted(ld, second)
  IN
  IF select_reader(filepath) = << >> THEN [d EXCEPT !.ret = "false"]
  ELSE IF src.threw THEN [d EXCEPT !.ret = "false", !.raised = TRUE]
  ELSE IF src.tasks = << >> THEN [d EXCEPT !.ret = "false"]
  ELSE IF p1.died THEN p1
  ELSE IF p1.ret = "threw" THEN [p1 EXCEPT !.ret = "false"]
  ELSE IF p2.died THEN p2
  ELSE IF p2.ret = "threw" THEN [p2 EXCEPT !.ret = "false"]
  ELSE [p2 EXCEPT !.ret = "true"]

\* DataManager::reload_tasks.
reload_tasks(d, open_fails, first, second) ==
  LET r == load_from_storage(d.storage_filepath_, d.history_, d.target_file,
                             open_fails)
      found == [d EXCEPT !.storage_filepath_ = r.filepath,
                         !.history_ = r.history,
                         !.current_filepath_ =
                            IF r.filepath = << >> THEN << >> ELSE r.filepath[1],
                         !.failed = open_fails]
  IN
  IF d.current_filepath_ # << >>
    THEN load_from_file(d, d.current_filepath_, first, second)
  ELSE IF r.ret = "threw"
    THEN [d EXCEPT !.ret = "false", !.failed = open_fails, !.raised = TRUE]
  ELSE IF r.ret = "false"
    THEN [d EXCEPT !.ret = "false"]
  ELSE IF found.current_filepath_ = << >>
    THEN [found EXCEPT !.ret = "false"]
  ELSE load_from_file(found, found.current_filepath_, first, second)

\* DataManager::DataManager over whatever the durable file holds.
constructed(target, tmp, open_fails) ==
  LET fresh == [tasks_ |-> EmptyMap, view_ |-> << >>,
                status_index_ |-> EmptyMap, tag_index_ |-> EmptyMap,
                current_filepath_ |-> << >>, storage_filepath_ |-> << >>,
                history_ |-> << >>, target_file |-> target, tmp_file |-> tmp,
                ret |-> "void", died |-> FALSE, failed |-> open_fails,
                raised |-> FALSE]
      r == load_from_storage(<< >>, << >>, target, open_fails)
      found == [fresh EXCEPT !.storage_filepath_ = r.filepath,
                             !.history_ = r.history,
                             !.current_filepath_ = r.filepath[1]]
      src == read_tasks(found.current_filepath_)
      db == loaded(src.tasks)
  IN
  IF r.ret # "true" THEN [fresh EXCEPT !.raised = r.ret = "threw"]
  ELSE IF select_reader(found.current_filepath_) = << >> THEN found
  ELSE IF src.threw THEN [found EXCEPT !.raised = TRUE]
  ELSE [found EXCEPT !.tasks_ = db.tasks_,
                     !.status_index_ = db.status_index_,
                     !.tag_index_ = db.tag_index_,
                     !.view_ = IF r.history # << >>
                                 THEN replay_history(db.tasks_, db.view_,
                                                     r.history)
                                 ELSE db.view_]

\* What the environment may do to a persist() made by a DataManager.
DataManagerOutcomes == {"ok", "open_fails", "write_fails", "crash_written"}

\* load_from_file persists twice.  The second persist() runs only when the
\* first has returned, and only one of the two fails.
LoadOutcomes ==
  { <<"ok", second>> : second \in DataManagerOutcomes }
    \cup { <<first, "ok">> : first \in DataManagerOutcomes }

\* The environment has a say only in the steps that run: none when the
\* source cannot be read or holds no task.
\* At most one file operation fails under one DataManager: after a
\* failure the environment lets everything through until the next run.
LoadOutcomesFor(filepath) ==
  IF \/ select_reader(filepath) = << >>
     \/ read_tasks(filepath).threw
     \/ read_tasks(filepath).tasks = << >>
     \/ io_failed
    THEN {<<"ok", "ok">>}
    ELSE LoadOutcomes

OutcomesIn(filepath) ==
  IF filepath = << >> THEN UndefinedOutcomes
  ELSE IF io_failed THEN {"ok"}
  ELSE DataManagerOutcomes

\* Opening the durable file can fail only where the file exists.
OpenChoices(target) == IF target = << >> THEN {FALSE} ELSE BOOLEAN

\* reload_tasks reads the durable file only when it knows no path, and
\* then loads the path it finds there.
ReloadOpenChoices ==
  IF current_filepath_ = << >> /\ ~io_failed
    THEN OpenChoices(target_file) ELSE {FALSE}

ReloadOutcomes(open_fails) ==
  LET r == load_from_storage(storage_filepath_, history_, target_file,
                             open_fails)
  IN IF current_filepath_ # << >> THEN LoadOutcomesFor(current_filepath_)
     ELSE IF r.ret = "true" THEN LoadOutcomesFor(r.filepath[1])
     ELSE {<<"ok", "ok">>}

\* apply_filter and apply_sort persist only when the text compiles and the
\* database call returns.
PersistReached(op, text) ==
  IF op = "apply_sort" THEN parse_sort(text) # << >>
  ELSE /\ parse_filter(text) # << >>
       /\ ~apply_filter(tasks_, view_, parse_filter(text)[1]).threw

ApplyOutcomes(op, text) ==
  IF PersistReached(op, text) THEN OutcomesIn(storage_filepath_)
  ELSE {CHOOSE outcome \in OutcomesIn(storage_filepath_) : TRUE}

\* The expressions the command line hands over.
CommandFilters ==
  { S_status \o <<"=">> \o S_todo,
    S_priority \o <<"=">> \o <<"a", "b", "c">>,
    S_todo,
    S_empty }

CommandSorts ==
  { S_priority \o <<" ">> \o S_desc,
    <<"b", "o", "g", "u", "s">> }

\* What a DataManager operation leaves in `last`: pre is the view before
\* it, arg what it was given, ret its result, raised whether a file
\* operation inside it raised an exception, clean whether every file
\* operation inside it succeeded, prior the log before it.
ManagerOp(op, arg, ret, raised) ==
  [op |-> op, arg |-> arg, pre |-> << >>, threw |-> ret = "threw",
   prior |-> << >>, chain |-> << >>, ret |-> ret, clean |-> TRUE,
   raised |-> raised]

\* A new run of the program.  last keeps the view and the source path the
\* run before it ended with, and whether that run ended in good order: no
\* file operation failed in it and the process did not die.
DataManager_DataManager(open_fails) ==
  \E d \in {constructed(target_file, tmp_file, open_fails)} :
  /\ Becomes(d)
  /\ io_failed' = d.failed
  /\ last' = [ManagerOp("DataManager", current_filepath_, "void", d.raised) EXCEPT
                !.pre = view_,
                !.clean = process = "up" /\ ~io_failed /\ ~open_fails]
  /\ UNCHANGED <<memo, threads>>

DataManager_load_from_file(filepath, outcomes) ==
  \E d \in {load_from_file(Here, filepath, outcomes[1], outcomes[2])} :
  /\ process = "up"
  /\ Becomes(d)
  /\ io_failed' = (io_failed \/ d.failed)
  /\ last' = [ManagerOp("load_from_file", filepath, d.ret, d.raised) EXCEPT
                !.clean = ~d.failed, !.prior = history_]
  /\ UNCHANGED <<memo, threads>>

DataManager_reload_tasks(open_fails, outcomes) ==
  \E d \in {reload_tasks(Here, open_fails, outcomes[1], outcomes[2])} :
  /\ process = "up"
  /\ Becomes(d)
  /\ io_failed' = (io_failed \/ d.failed)
  /\ last' = [ManagerOp("reload_tasks", << >>, d.ret, d.raised) EXCEPT
                !.clean = ~d.failed, !.prior = history_]
  /\ UNCHANGED <<memo, threads>>

\* A plausible slip: the entry is recorded before the text is compiled.
DataManager_apply_filter_recording_first(filter, outcome) ==
  LET filter_spec == parse_filter(filter)
      r == apply_filter(tasks_, view_, filter_spec[1])
      recorded == [Here EXCEPT !.history_ = Append(history_,
                                                   ViewAction("Filter", filter))]
      pushed == [recorded EXCEPT !.view_ = r.view]
      d == IF filter_spec = << >> THEN [recorded EXCEPT !.ret = "false"]
           ELSE IF r.threw THEN [recorded EXCEPT !.view_ = r.view, !.ret = "threw"]
           ELSE [persisted(pushed, outcome) EXCEPT !.ret = "true"]
  IN
  /\ process = "up"
  /\ Len(history_) < MaxHistory
  /\ outcome \in OutcomesIn(storage_filepath_)
  /\ Becomes(d)
  /\ io_failed' = (io_failed \/ d.failed)
  /\ last' = ManagerOp("apply_filter", filter, d.ret, d.raised)
  /\ UNCHANGED <<memo, threads>>

DataManager_apply_filter(filter, outcome) ==
  LET filter_spec == parse_filter(filter)
      r == apply_filter(tasks_, view_, filter_spec[1])
      pushed == [Here EXCEPT !.view_ = r.view,
                             !.history_ = Append(history_,
                                                 ViewAction("Filter", filter))]
      d == IF filter_spec = << >> THEN [Here EXCEPT !.ret = "false"]
           ELSE IF r.threw THEN [Here EXCEPT !.view_ = r.view, !.ret = "threw"]
           ELSE [persisted(pushed, outcome) EXCEPT !.ret = "true"]
  IN
  /\ process = "up"
  /\ Len(history_) < MaxHistory
  /\ outcome \in OutcomesIn(storage_filepath_)
  /\ Becomes(d)
  /\ io_failed' = (io_failed \/ d.failed)
  /\ last' = ManagerOp("apply_filter", filter, d.ret, d.raised)
  /\ UNCHANGED <<memo, threads>>

DataManager_apply_sort(sort, outcome) ==
  LET sort_spec == parse_sort(sort)
      pushed == [Here EXCEPT !.view_ = apply_sort(tasks_, view_, sort_spec[1]),
                             !.history_ = Append(history_,
                                                 ViewAction("Sort", sort))]
      d == IF sort_spec = << >> THEN [Here EXCEPT !.ret = "false"]
           ELSE [persisted(pushed, outcome) EXCEPT !.ret = "true"]
  IN
  /\ process = "up"
  /\ Len(history_) < MaxHistory
  /\ outcome \in OutcomesIn(storage_filepath_)
  /\ Becomes(d)
  /\ io_failed' = (io_failed \/ d.failed)
  /\ last' = ManagerOp("apply_sort", sort, d.ret, d.raised)
  /\ UNCHANGED <<memo, threads>>

DataManager_reset_view ==
  /\ process = "up"
  /\ history_' = << >>
  /\ view_' = reset_view(tasks_)
  /\ last' = ManagerOp("reset_view", << >>, "void", FALSE)
  /\ UNCHANGED <<tasks_, status_index_, tag_index_, current_filepath_,
                 storage_filepath_, target_file, tmp_file, process,
                 io_failed, memo, threads>>

InitDM ==
  /\ tasks_ = EmptyMap
  /\ view_ = << >>
  /\ status_index_ = EmptyMap
  /\ tag_index_ = EmptyMap
  /\ current_filepath_ = << >>
  /\ storage_filepath_ = << >>
  /\ history_ = << >>
  /\ target_file = << >>
  /\ tmp_file = << >>
  /\ process = "up"
  /\ io_failed = FALSE
  /\ last = ManagerOp("init", << >>, "void", FALSE)
  /\ memo = NoMemo
  /\ threads = NoThreads

NextDM ==
  \/ \E open_fails \in OpenChoices(target_file) :
       DataManager_DataManager(open_fails)
  \/ \E filepath \in SourcePaths : \E outcomes \in LoadOutcomesFor(filepath) :
       DataManager_load_from_file(filepath, outcomes)
  \/ \E open_fails \in ReloadOpenChoices :
       \E outcomes \in ReloadOutcomes(open_fails) :
         DataManager_reload_tasks(open_fails, outcomes)
  \/ \E filter \in CommandFilters :
       \E outcome \in ApplyOutcomes("apply_filter", filter) :
         DataManager_apply_filter(filter, outcome)
  \/ \E sort \in CommandSorts :
       \E outcome \in ApplyOutcomes("apply_sort", sort) :
         DataManager_apply_sort(sort, outcome)
  \/ DataManager_reset_view

SpecDM == InitDM /\ [][NextDM]_vars

(***************************************************************************)
(* ExpressionParser as its tests drive it: one text, handed to             *)
(* parse_filter and to parse_sort.  The text is chosen at the start and    *)
(* stays in last.arg; last.ret is the optional the call returned.          *)
(***************************************************************************)
ParseAlphabet == {"i", "d", " ", "=", ">", "<", "!"}

\* Every text of up to MaxText characters of the alphabet.
ShortTexts == SeqsUpTo(ParseAlphabet, MaxText)

FieldTexts == {S_id, S_title, S_status, S_priority, S_created_date,
               S_due_date, S_assignee, S_description,
               <<"b", "o", "g", "u", "s">>, << >>}

OperatorTexts == {<<">", "=">>, <<"<", "=">>, <<"!", "=">>, <<"=">>, <<">">>, <<"<">>}

ValueTexts == {<<"3">>, S_todo, <<"a", " ", "b">>, <<"a", " ", "=", "b">>,
               <<"<", "x", "!">>, << >>}

Paddings == {<< >>, <<" ", "\t">>}

\* field, operator, value, with or without white space around each.
BuiltTexts ==
  {pad \o f \o pad \o o \o pad \o v \o pad :
     f \in FieldTexts, o \in OperatorTexts, v \in ValueTexts, pad \in Paddings}

\* field and what follows it in a sort text.
SortFieldTexts == {S_id, S_title, S_status, S_priority, S_created_date,
                   S_due_date, S_assignee, <<"b", "o", "g", "u", "s">>}

DirectionTexts == {<< >>, <<" ">>, <<" ">> \o S_asc, <<" ">> \o S_ascending,
                   <<" ">> \o S_desc, <<" ">> \o S_descending,
                   <<" ", "u", "p">>, <<" ", " ">> \o S_desc,
                   <<" ">> \o S_desc \o <<" ">>}

BuiltSortTexts ==
  {f \o d : f \in SortFieldTexts, d \in DirectionTexts}
    \cup {<<" ">> \o S_priority}

ParseTexts ==
  ShortTexts \cup BuiltTexts \cup FilterTexts \cup SortTexts \cup BuiltSortTexts

Parser_parse_filter ==
  /\ last' = [Op("parse_filter", last.arg, << >>) EXCEPT
                !.ret = parse_filter(last.arg)]
  /\ UNCHANGED <<tasks_, view_, status_index_, tag_index_, memo>>
  /\ UNCHANGED outsideDatabase

Parser_parse_sort ==
  /\ last' = [Op("parse_sort", last.arg, << >>) EXCEPT
                !.ret = parse_sort(last.arg)]
  /\ UNCHANGED <<tasks_, view_, status_index_, tag_index_, memo>>
  /\ UNCHANGED outsideDatabase

InitParse ==
  /\ tasks_ = EmptyMap
  /\ view_ = << >>
  /\ status_index_ = EmptyMap
  /\ tag_index_ = EmptyMap
  /\ current_filepath_ = << >>
  /\ storage_filepath_ = << >>
  /\ history_ = << >>
  /\ target_file = << >>
  /\ tmp_file = << >>
  /\ process = "up"
  /\ io_failed = FALSE
  /\ \E text \in ParseTexts : last = Op("init", text, << >>)
  /\ memo = NoMemo
  /\ threads = NoThreads

NextParse ==
  \/ Parser_parse_filter
  \/ Parser_parse_sort

SpecParse == InitParse /\ [][NextParse]_vars

(***************************************************************************)
(* Properties of the view pipeline.                                        *)
(***************************************************************************)
Count(s, x) == Cardinality({i \in 1..Len(s) : s[i] = x})
Pos(s, x) == CHOOSE i \in 1..Len(s) : s[i] = x

ViewOps == {"reset_view", "apply_filter", "apply_sort", "filter_by_tag",
            "filter_no_tags", "replay_history"}

\* C1: apply_filter never adds a task: the tasks of the view after the call
\* are among the tasks of the view before it.
C1_FilterNeverAdds ==
  last.op = "apply_filter" =>
    /\ Range(view_) \subseteq Range(last.pre)
    /\ \A x \in Range(view_) : Count(view_, x) <= Count(last.pre, x)

\* A filter that completed and removed some tasks but not all.
C1_Witness ==
  /\ last.op = "apply_filter"
  /\ ~last.threw
  /\ view_ # << >>
  /\ Range(view_) # Range(last.pre)

\* C2: apply_sort leaves a permutation of the view it found: the same
\* count, and every task as often as before.
C2_SortIsPermutation ==
  last.op = "apply_sort" =>
    /\ Len(view_) = Len(last.pre)
    /\ \A x \in Range(view_) \cup Range(last.pre) :
         Count(view_, x) = Count(last.pre, x)

\* A sort that changed the order of a view of three tasks.
C2_Witness ==
  /\ last.op = "apply_sort"
  /\ view_ # last.pre
  /\ Len(view_) >= 3

\* The sort key of a task as the sort text names it.
SortKey(field, t) ==
  IF field = "Id" THEN <<t.id>>
  ELSE IF field = "Priority" THEN <<t.priority>>
  ELSE IF field = "Title" THEN t.title
  ELSE IF field = "Status" THEN t.status
  ELSE IF field = "CreatedDate" THEN t.created_date
  ELSE t.due_date

\* C3: apply_sort is stable: two tasks of the view whose sort keys are
\* equal keep the relative order they had before the call.
C3_SortStable ==
  last.op = "apply_sort" =>
    \A i, j \in 1..Len(last.pre) :
      (/\ i < j
       /\ SortKey(last.arg[1].field, tasks_[last.pre[i]])
            = SortKey(last.arg[1].field, tasks_[last.pre[j]]))
      => Pos(view_, last.pre[i]) < Pos(view_, last.pre[j])

\* C4: reset_view leaves exactly every task of the store, each once, in
\* ascending id order.
C4_ResetRestoresAll ==
  last.op = "reset_view" =>
    /\ Range(view_) = DOMAIN tasks_
    /\ Len(view_) = Cardinality(DOMAIN tasks_)
    /\ \A i, j \in 1..Len(view_) : i < j => view_[i] < view_[j]

\* A reset of a view that a filter or a sort had changed.
C4_Witness ==
  /\ last.op = "reset_view"
  /\ Len(view_) >= 2
  /\ last.pre # view_

\* C5: over one store, a replay of the log yields the view the previous
\* replay of the same log yielded, whatever happened to the view between.
C5_ReplayDeterministic ==
  (last.op = "replay_history" /\ last.prior # << >>) => view_ = last.prior[1]

\* A second replay of a log of two entries, begun from a view other than
\* its result, whose result is not the plain reset view.
C5_Witness ==
  /\ last.op = "replay_history"
  /\ last.prior # << >>
  /\ Len(last.arg) >= 2
  /\ last.pre # view_
  /\ view_ # Ascending(DOMAIN tasks_)

\* C9: the view operations leave the store (so total_task_count too) and
\* both indices as they were.
C9_ViewOpsKeepStore ==
  [][last'.op \in ViewOps =>
       /\ tasks_' = tasks_
       /\ Cardinality(DOMAIN tasks_') = Cardinality(DOMAIN tasks_)
       /\ status_index_' = status_index_
       /\ tag_index_' = tag_index_]_vars

\* A view operation that changed the view of a loaded store.
C9_Witness ==
  /\ last.op \in ViewOps
  /\ view_ # last.pre
  /\ DOMAIN tasks_ # {}

\* The comparison "task.field operator value" a filter text asks for.
\* Numbers compare as numbers, strings as strings; an absent optional
\* field and a value that is no number satisfy nothing.
IsNumber(v) ==
  LET body == IF v # << >> /\ Head(v) \in {"-", "+"} THEN Tail(v) ELSE v
  IN body # << >> /\ \A i \in 1..Len(body) : IsDigit(body[i])

Compare(op, lt, eq) ==
  IF op = "Equal" THEN eq
  ELSE IF op = "NotEqual" THEN ~eq
  ELSE IF op = "LessThan" THEN lt
  ELSE IF op = "LessThanOrEqual" THEN lt \/ eq
  ELSE IF op = "GreaterThan" THEN ~lt /\ ~eq
  ELSE ~lt

CompareNumber(op, n, v) ==
  IsNumber(v) /\ Compare(op, n < stoi(v)[1], n = stoi(v)[1])

CompareString(op, s, v) == Compare(op, StrLess(s, v), s = v)

CompareOptional(op, o, v) == o # << >> /\ CompareString(op, o[1], v)

Satisfies(t, f) ==
  IF f.field = "Id" THEN CompareNumber(f.op, t.id, f.value)
  ELSE IF f.field = "Priority" THEN CompareNumber(f.op, t.priority, f.value)
  ELSE IF f.field = "Title" THEN CompareString(f.op, t.title, f.value)
  ELSE IF f.field = "Status" THEN CompareString(f.op, t.status, f.value)
  ELSE IF f.field = "CreatedDate" THEN CompareString(f.op, t.created_date, f.value)
  ELSE IF f.field = "DueDate" THEN CompareOptional(f.op, t.due_date, f.value)
  ELSE IF f.field = "Assignee" THEN CompareOptional(f.op, t.assignee, f.value)
  ELSE CompareOptional(f.op, t.description, f.value)

\* C10: after apply_filter(f1) then apply_filter(f2), both completed and
\* nothing between them, the view holds exactly the tasks of the starting
\* view that satisfy both f1 and f2.
C10_CumulativeAnd ==
  (last.op = "apply_filter" /\ ~last.threw /\ last.chain # << >>) =>
    Range(view_) =
      {x \in Range(last.chain[1].base) :
         /\ Satisfies(tasks_[x], last.chain[1].filter)
         /\ Satisfies(tasks_[x], last.arg[1])}

\* Does the key of a come no later than the key of b: numbers as numbers,
\* strings as std::string compares them; of two due dates only present
\* ones are compared.
KeyLeq(field, a, b) ==
  IF field = "Id" THEN a.id <= b.id
  ELSE IF field = "Priority" THEN a.priority <= b.priority
  ELSE IF field = "Title" THEN ~StrLess(b.title, a.title)
  ELSE IF field = "Status" THEN ~StrLess(b.status, a.status)
  ELSE IF field = "CreatedDate" THEN ~StrLess(b.created_date, a.created_date)
  ELSE (a.due_date # << >> /\ b.due_date # << >>)
         => ~StrLess(b.due_date[1], a.due_date[1])

\* C32: after apply_sort on any of the six fields the view is ordered by
\* that field: every adjacent pair is non-decreasing for Ascending and
\* non-increasing for Descending.
C32_SortedByField ==
  last.op = "apply_sort" =>
    \A i \in 1..(Len(view_) - 1) :
      IF last.arg[1].direction = "Ascending"
        THEN KeyLeq(last.arg[1].field, tasks_[view_[i]], tasks_[view_[i + 1]])
        ELSE KeyLeq(last.arg[1].field, tasks_[view_[i + 1]], tasks_[view_[i]])

\* C33: a priority filter whose value is an integer (one an int holds)
\* keeps exactly the tasks of the prior view whose priority compares true
\* against it under the operator, for each of the six operators.
C33_PriorityFilterExact ==
  (/\ last.op = "apply_filter"
   /\ last.arg[1].field = "Priority"
   /\ IsNumber(last.arg[1].value)
   /\ stoi(last.arg[1].value) # << >>)
  => /\ ~last.threw
     /\ Range(view_) =
          {x \in Range(last.pre) :
             CompareNumber(last.arg[1].op, tasks_[x].priority, last.arg[1].value)}

\* A priority filter with > that removed a task whose priority equals the
\* value and kept another.
C33_Witness ==
  /\ last.op = "apply_filter"
  /\ last.arg[1].field = "Priority"
  /\ last.arg[1].op = "GreaterThan"
  /\ view_ # << >>
  /\ \E x \in Range(last.pre) \ Range(view_) :
       <<tasks_[x].priority>> = stoi(last.arg[1].value)

\* C34: apply_filter preserves order: the tasks left in the view stand in
\* the relative order they had before the call, whatever sorts came earlier.
C34_FilterKeepsOrder ==
  last.op = "apply_filter"
  => \A i, j \in 1..Len(view_) :
       i < j => /\ view_[i] \in Range(last.pre)
                /\ view_[j] \in Range(last.pre)
                /\ Pos(last.pre, view_[i]) < Pos(last.pre, view_[j])

\* A filter that removed a task from a view a sort had taken out of id order
\* and left at least two tasks, still out of id order.
C34_Witness ==
  /\ last.op = "apply_filter"
  /\ ~last.threw
  /\ Len(view_) < Len(last.pre)
  /\ \E i \in 1..(Len(view_) - 1) : view_[i] > view_[i + 1]

\* C38: the view never dangles or duplicates: in every state reached by
\* load, reset_view, apply_filter, apply_sort and replay_history, every
\* element of the view points to a task of the store and no task is in the
\* view twice.
C38_ViewWellFormed ==
  /\ \A i \in 1..Len(view_) : view_[i] \in DOMAIN tasks_
  /\ \A i, j \in 1..Len(view_) : i # j => view_[i] # view_[j]

\* A load over a store some of whose tasks the view pointed to and the new
\* store no longer has.
C38_Witness ==
  /\ last.op = "load"
  /\ view_ # << >>
  /\ \E x \in Range(last.pre) : x \notin DOMAIN tasks_

(***************************************************************************)
(* Properties of the action log's durable record.                          *)
(***************************************************************************)
\* C7: persist() on one ViewStorage, then load_from_storage() on a fresh
\* one, with no I/O failure in either: the fresh one holds the path and the
\* history the first one wrote from, entry for entry, in order.
C7_PersistLoadRoundTrip ==
  (/\ last.op = "load_from_storage"
   /\ last.clean
   /\ last.prior # << >>
   /\ last.prior[1] # << >>)
  => /\ last.ret = "true"
     /\ storage_filepath_ = last.prior[1]
     /\ history_ = last.prior[2]
     /\ \A i \in 1..Len(history_) :
          /\ history_[i].type = last.prior[2][i].type
          /\ history_[i].payload = last.prior[2][i].payload

\* A round trip of a history of two entries of different types.
C7_Witness ==
  /\ last.op = "load_from_storage"
  /\ last.clean
  /\ last.prior # << >>
  /\ last.prior[1] # << >>
  /\ Len(history_) >= 2
  /\ history_[1].type # history_[2].type
  /\ \E i \in 1..Len(history_) : history_[i].type \in {"ResetFilters", "FindByTag"}

\* C8: whatever happens in persist() once a path is set (a step fails, the
\* process dies), the durable file afterwards is the whole previous record
\* or the whole new one.
C8_PersistAllOrNothing ==
  [][(last'.op = "persist" /\ storage_filepath_ # << >>) =>
       \/ target_file' = target_file
       \/ target_file' = <<json_data(storage_filepath_[1], history_)>>]_vars

KnownTypeNames == {"load", "filter", "sort", "reset-filters", "find-by-tag"}

KnownEntry(e) == e.type \in KnownTypeNames

TypeNamed(name) ==
  CASE name = "load" -> "Load"
    [] name = "filter" -> "Filter"
    [] name = "sort" -> "Sort"
    [] name = "reset-filters" -> "ResetFilters"
    [] name = "find-by-tag" -> "FindByTag"

\* C36: load_from_storage() over a durable record skips the entries whose
\* type is none of load, filter, sort, reset-filters, find-by-tag without
\* failing the read, and keeps the others in their order, each with its
\* payload.
C36_UnknownTypesSkipped ==
  (/\ last.op = "load_from_storage"
   /\ last.clean
   /\ target_file # << >>
   /\ ~target_file[1].torn)
  => LET known == SelectSeq(target_file[1].history, KnownEntry) IN
     /\ last.ret = "true"
     /\ history_ = [i \in 1..Len(known) |->
                      ViewAction(TypeNamed(known[i].type), known[i].payload)]

\* A read of a record whose second entry is of unknown type, between two of
\* known types: both are in the log, the unknown one is not.
C36_Witness ==
  /\ last.op = "load_from_storage"
  /\ last.ret = "true"
  /\ Len(target_file[1].history) = 3
  /\ KnownEntry(target_file[1].history[1])
  /\ ~KnownEntry(target_file[1].history[2])
  /\ KnownEntry(target_file[1].history[3])
  /\ Len(history_) = 2

InPersist == {t \in Threads : threads[t].pc \in {"opened", "written"}}

\* C37: with set_filepath, push_action, clear_history and persist running
\* in several threads, every durable record that becomes visible is the
\* {source path, history} pair the ViewStorage held at one moment: the pair
\* some persist() under way copied under the lock, and nothing else.
C37_SnapshotsConsistent ==
  [][target_file' # target_file =>
       \E t \in InPersist :
         target_file' = <<json_data(threads[t].filepath_copy[1],
                                    threads[t].history_copy)>>]_vars

(***************************************************************************)
(* Properties of a view across runs of the program.                        *)
(***************************************************************************)
\* C6: a run that had a source file and ended in good order (no file
\* operation failed, the process did not die), after any operations; the
\* source files unchanged.  The DataManager the next run constructs from
\* the durable record shows the view the run before ended with, element
\* for element, in order.
C6_ViewSurvivesRestart ==
  (/\ last.op = "DataManager"
   /\ last.arg # << >>
   /\ last.clean)
  => view_ = last.pre

(***************************************************************************)
(* Properties of the DataManager operations.                               *)
(***************************************************************************)
\* The text the expression compiler rejects, for the operation named.
Rejected(op, text) ==
  \/ op = "apply_filter" /\ parse_filter(text) = << >>
  \/ op = "apply_sort" /\ parse_sort(text) = << >>

\* C11: apply_filter or apply_sort given text the compiler rejects returns
\* false and leaves the store, the view, the in-memory log and the durable
\* record as they were.
C11_ParseErrorChangesNothing ==
  [][Rejected(last'.op, last'.arg) =>
       /\ last'.ret = "false"
       /\ tasks_' = tasks_
       /\ view_' = view_
       /\ history_' = history_
       /\ storage_filepath_' = storage_filepath_
       /\ target_file' = target_file]_vars

\* A rejected text met a DataManager that had a filtered view, an entry in
\* its log and a durable record.
C11_Witness ==
  /\ Rejected(last.op, last.arg)
  /\ last.ret = "false"
  /\ history_ # << >>
  /\ target_file # << >>
  /\ view_ # << >>
  /\ view_ # reset_view(tasks_)

\* C12: a load_from_file, reload_tasks, apply_filter or apply_sort in which
\* reading the source or writing the durable log raised an error reports
\* failure and leaves the store, the view, the current path and the path and
\* history held by the storage as they were.  (A path is set in the storage
\* when apply_filter or apply_sort begins, so persist() is defined.)
C12_IOFailureChangesNothing ==
  [][(/\ last'.op \in {"load_from_file", "reload_tasks", "apply_filter",
                       "apply_sort"}
      /\ last'.raised
      /\ last'.op \in {"apply_filter", "apply_sort"}
           => storage_filepath_ # << >>)
     => /\ last'.ret = "false"
        /\ tasks_' = tasks_
        /\ view_' = view_
        /\ current_filepath_' = current_filepath_
        /\ storage_filepath_' = storage_filepath_
        /\ history_' = history_]_vars

IsPrefix(a, b) == Len(a) <= Len(b) /\ SubSeq(b, 1, Len(a)) = a

\* C13: with a source file loaded, an operation that does not switch the
\* source path (apply_filter, apply_sort, reset_view) leaves a log of which
\* the log before it is a prefix: no entry is removed, reordered or
\* rewritten.
C13_LogAppendOnly ==
  [][(/\ current_filepath_ # << >>
      /\ last'.op \in {"apply_filter", "apply_sort", "reset_view"})
     => IsPrefix(history_, history_')]_vars

Durable(target) == load_from_storage(<< >>, << >>, target, FALSE)

EntryKind(op) == IF op = "apply_filter" THEN "Filter" ELSE "Sort"

\* C15: an apply_filter / apply_sort that returns true has appended exactly
\* one entry, of kind Filter / Sort with the text as given, and the durable
\* record then holds the in-memory log; one that does not return true has
\* appended nothing.  (A path is set in the storage when the call begins,
\* the call returns, and the durable file is not a torn one.)
C15_ExactlySuccessesRecorded ==
  [][(/\ last'.op \in {"apply_filter", "apply_sort"}
      /\ storage_filepath_ # << >>
      /\ process' = "up"
      /\ target_file' # <<Torn>>)
     => IF last'.ret = "true"
          THEN /\ history_' = Append(history_,
                                     ViewAction(EntryKind(last'.op), last'.arg))
               /\ Durable(target_file').ret = "true"
               /\ Durable(target_file').history = history_'
          ELSE history_' = history_]_vars

\* C16: with no current file known, apply_filter / apply_sort throw
\* nothing and return false, append nothing to the log, and do not run
\* persist() with an absent source path (the process stays up and the
\* durable file is untouched).
C16_NoFileMeansFalse ==
  [][(/\ last'.op \in {"apply_filter", "apply_sort"}
      /\ current_filepath_ = << >>)
     => /\ last'.ret = "false"
        /\ history_' = history_
        /\ process' = "up"
        /\ target_file' = target_file]_vars

\* The entries of a log that a replay over `tasks`, arriving at each with
\* the view `view`, does not skip: a Filter or Sort entry is skipped when
\* the parser rejects its payload or when applying it raises an error.
RECURSIVE Kept(_, _, _)
Kept(tasks, view, actions) ==
  IF actions = << >> THEN << >>
  ELSE LET a == Head(actions)
           filter_spec == parse_filter(a.payload)
           sort_spec == parse_sort(a.payload)
           r == apply_filter(tasks, view, filter_spec[1])
       IN IF a.type = "Filter" THEN
            IF filter_spec = << >> \/ r.threw
              THEN Kept(tasks, view, Tail(actions))
              ELSE <<a>> \o Kept(tasks, r.view, Tail(actions))
          ELSE IF a.type = "Sort" THEN
            IF sort_spec = << >>
              THEN Kept(tasks, view, Tail(actions))
              ELSE <<a>> \o Kept(tasks, apply_sort(tasks, view, sort_spec[1]),
                                 Tail(actions))
          ELSE IF a.type = "ResetFilters" THEN
            <<a>> \o Kept(tasks, reset_view(tasks), Tail(actions))
          ELSE <<a>> \o Kept(tasks, view, Tail(actions))

\* The view a log builds when every entry applies: each entry in turn on
\* the view the one before it left, starting from all tasks in id order.
RECURSIVE ApplyAll(_, _, _)
ApplyAll(tasks, view, actions) ==
  IF actions = << >> THEN view
  ELSE LET a == Head(actions)
           v == IF a.type = "Filter"
                  THEN apply_filter(tasks, view, parse_filter(a.payload)[1]).view
                ELSE IF a.type = "Sort"
                  THEN apply_sort(tasks, view, parse_sort(a.payload)[1])
                ELSE IF a.type = "ResetFilters" THEN reset_view(tasks)
                ELSE view
       IN ApplyAll(tasks, v, Tail(actions))

\* C17: replay skips an entry whose payload the parser rejects or whose
\* application raises an error and goes on with the rest: the view after
\* replay_history(log) is the view built by the log with those entries
\* deleted.
C17_ReplaySkipsBadEntries ==
  last.op = "replay_history" =>
    view_ = ApplyAll(tasks_, reset_view(tasks_),
                     Kept(tasks_, reset_view(tasks_), last.arg))

\* A replay whose log begins with a skipped entry and goes on with one that
\* is applied and changes the view.
C17_Witness ==
  /\ last.op = "replay_history"
  /\ Len(last.arg) >= 2
  /\ Kept(tasks_, reset_view(tasks_), last.arg) = Tail(last.arg)
  /\ view_ # reset_view(tasks_)

NotLoad(a) == a.type # "Load"

\* C35: in a replay a ResetFilters entry restores the full id-ordered view
\* and a Load entry does nothing: the replay of L1 ++ [ResetFilters] ++ L2
\* leaves the view the replay of L2 alone leaves, the replay up to the
\* ResetFilters entry leaves every task in id order, and the replay of the
\* log without its Load entries leaves the same view; the store is as it was.
C35_ResetAndLoadInReplay ==
  [][last'.op = "replay_history" =>
       LET log == last'.arg IN
       /\ tasks_' = tasks_
       /\ view_' = replay_history(tasks_, view_, SelectSeq(log, NotLoad))
       /\ \A k \in 1..Len(log) :
            log[k].type = "ResetFilters" =>
              /\ replay_history(tasks_, view_, SubSeq(log, 1, k))
                   = Ascending(DOMAIN tasks_)
              /\ view_' = replay_history(tasks_, view_,
                                         SubSeq(log, k + 1, Len(log)))]_vars

\* A replay of a log with a Load entry and a ResetFilters entry, where the
\* entries before the ResetFilters alone change the view and those after it
\* do too.
C35_Witness ==
  /\ last.op = "replay_history"
  /\ \E j \in 1..Len(last.arg) : last.arg[j].type = "Load"
  /\ \E k \in 2..(Len(last.arg) - 1) :
       /\ last.arg[k].type = "ResetFilters"
       /\ replay_history(tasks_, view_, SubSeq(last.arg, 1, k - 1))
            # Ascending(DOMAIN tasks_)
  /\ view_ # Ascending(DOMAIN tasks_)

IdsOf(tasks) == {tasks[i].id : i \in 1..Len(tasks)}

\* Every id of the task lists, and one that occurs in none.
ProbeIds == UNION {IdsOf(tasks) : tasks \in TaskLists} \cup {0}

C19_LastDuplicateWins ==
  last.op = "load" =>
    LET tasks == last.arg[1] IN
    /\ \A i \in 1..Len(tasks) :
         (\A j \in (i + 1)..Len(tasks) : tasks[j].id # tasks[i].id)
           => /\ tasks[i].id \in DOMAIN tasks_
              /\ tasks_[tasks[i].id] = tasks[i]
    /\ \A k \in DOMAIN tasks_ : tasks_[k].id = k
    /\ total_task_count(tasks_) = Cardinality(IdsOf(tasks))

\* A load of a sequence in which an id occurs twice, with different tasks.
C19_Witness ==
  /\ last.op = "load"
  /\ \E i, j \in 1..Len(last.arg[1]) :
       /\ i < j
       /\ last.arg[1][i].id = last.arg[1][j].id
       /\ last.arg[1][i] # last.arg[1][j]
  /\ total_task_count(tasks_) < Len(last.arg[1])

\* The tasks an index lists under a key.
Listed(index, key) == IF key \in DOMAIN index THEN Range(index[key]) ELSE {}

\* C20: in every state reached by load and the view operations, the status
\* index lists under each status exactly the stored tasks with that status,
\* the tag index lists under each tag exactly the stored tasks whose tag
\* list contains it, and neither index lists a task that is not stored.
C20_IndicesMatchStore ==
  /\ \A s \in DOMAIN status_index_ \cup {tasks_[k].status : k \in DOMAIN tasks_} :
       Listed(status_index_, s) = {k \in DOMAIN tasks_ : tasks_[k].status = s}
  /\ \A g \in DOMAIN tag_index_ \cup UNION {Range(tasks_[k].tags) : k \in DOMAIN tasks_} :
       Listed(tag_index_, g) = {k \in DOMAIN tasks_ : g \in Range(tasks_[k].tags)}
  /\ \A s \in DOMAIN status_index_ : Range(status_index_[s]) \subseteq DOMAIN tasks_
  /\ \A g \in DOMAIN tag_index_ : Range(tag_index_[g]) \subseteq DOMAIN tasks_

\* A view operation has narrowed or reordered the view of a store with two
\* statuses, a task with two tags and a tag shared by two tasks.
C20_Witness ==
  /\ last.op \in ViewOps
  /\ view_ # reset_view(tasks_)
  /\ Cardinality(DOMAIN status_index_) >= 2
  /\ \E k \in DOMAIN tasks_ : Cardinality(Range(tasks_[k].tags)) >= 2
  /\ \E g \in DOMAIN tag_index_ : Cardinality(Range(tag_index_[g])) >= 2

\* C21: after apply_filter with a filter the parser produced, on any of the
\* eight fields, no task for which "task.field operator value" is false is
\* left in the view.
C21_FilterRemovesEveryFalse ==
  (last.op = "apply_filter" /\ ~last.threw) =>
    \A x \in Range(view_) : Satisfies(tasks_[x], last.arg[1])

\* C23: an apply_filter on priority whose value is no integer literal
\* fails as a whole: it does not return true, the view is as before and
\* nothing is appended to the log, whatever the view holds.  (A source has
\* been loaded when the call begins.)
C23_NonNumericPriorityFails ==
  [][(/\ last'.op = "apply_filter"
      /\ parse_filter(last'.arg) # << >>
      /\ parse_filter(last'.arg)[1].field = "Priority"
      /\ ~IsNumber(parse_filter(last'.arg)[1].value)
      /\ current_filepath_ # << >>)
     => /\ last'.ret # "true"
        /\ view_' = view_
        /\ history_' = history_]_vars

\* C24: filter_by_tag(tag) leaves exactly the tasks of the prior view whose
\* tag list contains tag, filter_no_tags() exactly those whose tag list is
\* empty, both in the order they had.
C24_TagFiltersNarrow ==
  /\ last.op = "filter_by_tag" =>
       view_ = SelectSeq(last.pre, LAMBDA x : last.arg[1] \in Range(tasks_[x].tags))
  /\ last.op = "filter_no_tags" =>
       view_ = SelectSeq(last.pre, LAMBDA x : tasks_[x].tags = << >>)

ManagerOps == {"load_from_file", "reload_tasks", "apply_filter", "apply_sort",
               "reset_view"}

\* C39: memory and disk agree: after every load_from_file, reload_tasks,
\* apply_filter, apply_sort and reset_view that returns, when a source path
\* is active, the durable record holds the in-memory path and the in-memory
\* action log, and the view is the replay of that durable history over the
\* store.
C39_MemoryAndDiskAgree ==
  (/\ last.op \in ManagerOps
   /\ ~last.threw
   /\ process = "up"
   /\ current_filepath_ # << >>)
  => /\ Durable(target_file).ret = "true"
     /\ Durable(target_file).filepath = <<current_filepath_>>
     /\ Durable(target_file).filepath = storage_filepath_
     /\ Durable(target_file).history = history_
     /\ view_ = replay_history(tasks_, view_, Durable(target_file).history)

(***************************************************************************)
(* Properties of the aggregations.                                         *)
(***************************************************************************)
\* C25: overdue_count(today) is the number of tasks of the view that have a
\* due date, whose due date is lexicographically less than today, and whose
\* status is not "done".
C25_OverdueCount ==
  last.op = "overdue_count" =>
    last.ret = Cardinality({i \in 1..Len(view_) :
                  /\ tasks_[view_[i]].due_date # << >>
                  /\ StrLess(tasks_[view_[i]].due_date[1], last.arg[1])
                  /\ tasks_[view_[i]].status # S_done})

\* The number of elements of the view whose task has a status in S.
WithStatus(S) ==
  Cardinality({i \in 1..Len(view_) : tasks_[view_[i]].status \in S})

\* C26: status_stats() counts over the view: the todo, in-progress and done
\* counters are the numbers of view tasks with exactly that status, every
\* other status goes to other_count, and total() is view_task_count().
C26_StatusStatsOverView ==
  last.op = "status_stats" =>
    /\ last.ret.todo_count = WithStatus({S_todo})
    /\ last.ret.in_progress_count = WithStatus({S_in_progress})
    /\ last.ret.done_count = WithStatus({S_done})
    /\ last.ret.other_count =
         Len(view_) - WithStatus({S_todo, S_in_progress, S_done})
    /\ total(last.ret) = view_task_count(view_)

\* The statistics of a view a filter has narrowed: it holds a task with a
\* status outside the three, the store holds a task the view lacks.
C26_Witness ==
  /\ last.op = "status_stats"
  /\ last.ret.other_count > 0
  /\ view_ # << >>
  /\ Len(view_) < Cardinality(DOMAIN tasks_)

\* The sum of the priorities of the view as the integer it is, in two
\* parts: sum = hi * 65536 + lo with 0 <= lo < 65536.
RECURSIVE SumParts(_)
SumParts(view) ==
  IF view = << >> THEN [hi |-> 0, lo |-> 0]
  ELSE LET rest == SumParts(Tail(view))
           p == tasks_[Head(view)].priority
           lo == rest.lo + (p % 65536)
       IN [hi |-> rest.hi + (p \div 65536) + (lo \div 65536), lo |-> lo % 65536]

C22_StringFieldsEqualityOnly ==
  (/\ last.op = "parse_filter"
   /\ last.ret # << >>
   /\ last.ret[1].field \in {"Title", "Status", "CreatedDate"})
  => last.ret[1].op \in {"Equal", "NotEqual"}

\* The six operators in the order the specification gives them.
OperatorOrder ==
  << [text |-> <<">", "=">>, op |-> "GreaterThanOrEqual"],
     [text |-> <<"<", "=">>, op |-> "LessThanOrEqual"],
     [text |-> <<"!", "=">>, op |-> "NotEqual"],
     [text |-> <<"=">>, op |-> "Equal"],
     [text |-> <<">">>, op |-> "GreaterThan"],
     [text |-> <<"<">>, op |-> "LessThan"] >>

\* The places (1-based) where pat stands in text.
Occurrences(text, pat) ==
  {i \in 1..Len(text) : /\ i + Len(pat) - 1 <= Len(text)
                        /\ \A j \in 1..Len(pat) : text[i + j - 1] = pat[j]}

\* The operators that occur in text, by their rank in the order.
Occurring(text) ==
  {k \in 1..Len(OperatorOrder) : Occurrences(text, OperatorOrder[k].text) # {}}

Least(S) == CHOOSE x \in S : \A y \in S : x <= y

\* C28: the operator of a filter text is the first of >=, <=, !=, =, >, <
\* that occurs anywhere in it, and the text is split at the leftmost
\* occurrence of that operator; "priority>=3" yields GreaterThanOrEqual
\* with the value "3".
C28_OperatorPriority ==
  last.op = "parse_filter" =>
    LET found == find_operator(last.arg)
        ranks == Occurring(last.arg)
    IN /\ IF ranks = {} THEN found = << >> /\ last.ret = << >>
          ELSE LET first == OperatorOrder[Least(ranks)] IN
               /\ found # << >>
               /\ found[1].op = first.op
               /\ found[1].pos + 1 = Least(Occurrences(last.arg, first.text))
               /\ last.ret # << >> => last.ret[1].op = first.op
       /\ last.arg = S_priority \o <<">", "=", "3">> =>
            last.ret = <<[field |-> "Priority", op |-> "GreaterThanOrEqual",
                          value |-> <<"3">>]>>

\* The text "priority>=3", accepted, and its operator one of two characters.
C28_Witness ==
  /\ last.op = "parse_filter"
  /\ last.arg = S_priority \o <<">", "=", "3">>
  /\ last.ret # << >>
  /\ last.ret[1].op \in {"GreaterThanOrEqual", "LessThanOrEqual", "NotEqual"}
  /\ last.ret[1].value # << >>

\* The two sides of a text that holds an operator: what stands before the
\* leftmost occurrence of the first operator in the order, and what stands
\* after it.
Sides(text) ==
  LET first == OperatorOrder[Least(Occurring(text))]
      i == Least(Occurrences(text, first.text))
  IN [before |-> SubSeq(text, 1, i - 1),
      after |-> SubSeq(text, i + Len(first.text), Len(text))]

Blank(c) == c \in {" ", "\t"}

\* w is s without its leading and trailing spaces and tabs, nothing else
\* taken away or changed.
IsTrimOf(w, s) ==
  /\ w = << >> \/ (~Blank(w[1]) /\ ~Blank(w[Len(w)]))
  /\ \E a \in 0..Len(s) :
       /\ a + Len(w) <= Len(s)
       /\ w = SubSeq(s, a + 1, a + Len(w))
       /\ \A i \in 1..Len(s) : (i <= a \/ i > a + Len(w)) => Blank(s[i])

FieldName ==
  [f \in FilterFields |->
     IF f = "Id" THEN S_id
     ELSE IF f = "Title" THEN S_title
     ELSE IF f = "Status" THEN S_status
     ELSE IF f = "Priority" THEN S_priority
     ELSE IF f = "CreatedDate" THEN S_created_date
     ELSE IF f = "DueDate" THEN S_due_date
     ELSE IF f = "Assignee" THEN S_assignee
     ELSE S_description]

FieldRecognised(text) ==
  \E f \in FilterFields : IsTrimOf(FieldName[f], Sides(text).before)

\* C30: parse_filter returns no FilterSpec for the empty text, for a text
\* that holds none of the six operators and for a text whose trimmed field
\* is not one of the eight names; for every other text it returns one.
C30_RejectsExactly ==
  last.op = "parse_filter" =>
    (last.ret = << >> <=>
       \/ last.arg = << >>
       \/ Occurring(last.arg) = {}
       \/ ~FieldRecognised(last.arg))

\* A text with an operator and a field name that is none of the eight,
\* rejected.
C30_Witness ==
  /\ last.op = "parse_filter"
  /\ last.ret = << >>
  /\ Occurring(last.arg) # {}
  /\ Sides(last.arg).before = <<"b", "o", "g", "u", "s">>

SortFieldName ==
  [f \in SortFields |->
     IF f = "Id" THEN S_id
     ELSE IF f = "Title" THEN S_title
     ELSE IF f = "Status" THEN S_status
     ELSE IF f = "Priority" THEN S_priority
     ELSE IF f = "CreatedDate" THEN S_created_date
     ELSE S_due_date]

\* A sort text read as <field>[ <direction>]: the field is what stands
\* before the first space, the direction what stands after it (absent
\* when there is no space).
SortParts(text) ==
  LET spaces == {i \in 1..Len(text) : text[i] = " "} IN
  IF spaces = {} THEN [field |-> text, direction |-> << >>]
  ELSE [field |-> SubSeq(text, 1, Least(spaces) - 1),
        direction |-> <<SubSeq(text, Least(spaces) + 1, Len(text))>>]

\* C31: parse_sort rejects the empty text and a text whose field is none of
\* the six sort fields; otherwise it returns that field, Descending when
\* the direction is "desc" or "descending", and Ascending when there is no
\* direction, when it is "asc" or "ascending", and for any other direction.
C31_SortDirection ==
  last.op = "parse_sort" =>
    LET parts == SortParts(last.arg)
        known == {f \in SortFields : SortFieldName[f] = parts.field}
    IN IF last.arg = << >> \/ known = {} THEN last.ret = << >>
       ELSE /\ last.ret # << >>
            /\ last.ret[1].field \in known
            /\ last.ret[1].direction =
                 IF parts.direction \in {<<S_desc>>, <<S_descending>>}
                   THEN "Descending" ELSE "Ascending"

\* A sort text with a known field and a direction that is none of the four
\* words, accepted.
C31_Witness ==
  /\ last.op = "parse_sort"
  /\ last.ret # << >>
  /\ SortParts(last.arg).direction # << >>
  /\ SortParts(last.arg).direction[1] \notin {S_asc, S_ascending, S_desc, S_descending, << >>}

=============================================================================
